---------------------------- MODULE Spec2Model ----------------------------
(***************************************************************************)
(* SHA-3 / Keccak-f[1600] as implemented in sha3.js (class Sha3 and        *)
(* Sha3.Long), modelled as a state machine that steps through one call of  *)
(* Sha3.keccak1600 after another.                                          *)
(* Further specifications in this module cover invocations side by side,   *)
(* Sha3.Long.rotl on its own, Block TEA (tea-block.js) and AES in counter  *)
(* mode (aes-ctr.js).                                                      *)
(*                                                                         *)
(* A JavaScript number that holds the result of a 32-bit bitwise operator  *)
(* is modelled as a record [b, neg]: b is the set of bit positions (0 is   *)
(* the least significant) that are 1 in its 32-bit two's complement        *)
(* pattern, neg tells whether the number is negative.  ^ | & ~ << give a   *)
(* signed 32-bit result (negative exactly when bit 31 is set), >>> gives   *)
(* an unsigned one (never negative).                                       *)
(***************************************************************************)
EXTENDS Integers, Sequences, FiniteSets, TLC

VARIABLES
    pc,      \* position of the current call of keccak1600
    r,       \* its bitrate
    c,       \* its capacity
    M,       \* its message
    opt,     \* its options after Object.assign(defaults, options)
    msg,     \* the encoded, then padded message
    state,   \* the 5 x 5 array of Long, state[x][y]
    i,       \* offset of the block being absorbed
    round,   \* round counter of keccak_f_1600
    md       \* the string returned

\* calls of keccak1600 running side by side
VARIABLES
    inv,     \* the locals of each invocation: pc, r, c, M, opt, msg, a, i, md
    heap     \* the state arrays created so far; inv[p].a is the one of invocation p

\* a Sha3.Long object under rotation
VARIABLES
    long0,   \* the Long as it was constructed
    long,    \* the Long returned by the last rotl
    shifts   \* the arguments of the calls of rotl so far

\* Tea.encrypt followed by Tea.decrypt: the arguments, the position, the
\* locals of encode and decode, and what was returned
VARIABLES tea

\* AesCtr.encrypt followed by AesCtr.decrypt, or nistEncryption followed by
\* nistDecryption: the arguments, the position and what was returned
VARIABLES aes

\* a call of Sha512.Long.add: the position, the two Longs and the Long returned
VARIABLES sha512

sha3Vars == << pc, r, c, M, opt, msg, state, i, round, md >>
taskVars == << inv, heap >>
longVars == << long0, long, shifts >>
teaVars == << tea >>
aesVars == << aes >>
sha512Vars == << sha512 >>

\* what the calls of each class leave alone
notSha3 == << taskVars, longVars, teaVars, aesVars, sha512Vars >>
notTasks == << sha3Vars, longVars, teaVars, aesVars, sha512Vars >>
notLong == << sha3Vars, taskVars, teaVars, aesVars, sha512Vars >>
notTea == << sha3Vars, taskVars, longVars, aesVars, sha512Vars >>
notAes == << sha3Vars, taskVars, longVars, teaVars, sha512Vars >>
notSha512 == << sha3Vars, taskVars, longVars, teaVars, aesVars >>

vars == << sha3Vars, taskVars, longVars, teaVars, aesVars, sha512Vars >>

Bits32 == 0..31

\* result of a signed 32-bit operator (ToInt32)
Int32(bits) == [b |-> bits, neg |-> 31 \in bits]

\* result of an unsigned 32-bit operator (ToUint32)
Uint32(bits) == [b |-> bits, neg |-> FALSE]

\* JavaScript a ^ b
Xor(a, b) == Int32({k \in Bits32 : (k \in a.b) # (k \in b.b)})

\* JavaScript a | b
Or(a, b) == Int32(a.b \cup b.b)

\* JavaScript a & b
And(a, b) == Int32(a.b \cap b.b)

\* JavaScript ~a
Not(a) == Int32(Bits32 \ a.b)

\* JavaScript a << n  (the shift count is taken modulo 32)
Shl(a, n) == Int32({k \in Bits32 : (k - (n % 32)) \in a.b})

\* JavaScript a >>> n  (the shift count is taken modulo 32)
Shru(a, n) == Uint32({k \in Bits32 : (k + (n % 32)) \in a.b})

\* Sha3.Long: constructor(hi, lo)
Long(hi, lo) == [hi |-> hi, lo |-> lo]

\* Sha3.Long.rotl(n)
rotl(this, n) ==
    IF n < 32 THEN
        LET m == 32 - n
            lo == Or(Shl(this.lo, n), Shru(this.hi, m))
            hi == Or(Shl(this.hi, n), Shru(this.lo, m))
        IN  Long(hi, lo)
    ELSE IF n = 32 THEN
        Long(this.lo, this.hi)
    ELSE
        LET n2 == n - 32
            m == 32 - n2
            lo == Or(Shl(this.hi, n2), Shru(this.lo, m))
            hi == Or(Shl(this.lo, n2), Shru(this.hi, m))
        IN  Long(hi, lo)


\* F(v) with the argument v evaluated before F is entered (call by value)
ByValue(F(_), v) == IF v = v THEN F(v) ELSE F(v)

\* a five-element array indexed 0..4, built element by element
Array5(f(_)) == (0 :> f(0)) @@ (1 :> f(1)) @@ (2 :> f(2)) @@ (3 :> f(3)) @@ (4 :> f(4))

\* value of one hex digit character
HexDigits == "0123456789abcdef"
HexVal(ch) == CHOOSE n \in 0..15 : SubSeq(HexDigits, n + 1, n + 1) = ch

\* parseInt(i32, 16) of a string of 8 hex digits: a number in [0, 2^32)
parseInt8(i32) ==
    Uint32({k \in Bits32 :
              (HexVal(SubSeq(i32, 8 - (k \div 4), 8 - (k \div 4))) \div (2 ^ (k % 4))) % 2 = 1})

\* mutant of fromString: the two halves exchanged
fromStringLoHi(str) == Long(parseInt8(SubSeq(str, 9, 16)), parseInt8(SubSeq(str, 1, 8)))

\* Sha3.Long.fromString(str)
fromString(str) == Long(parseInt8(SubSeq(str, 1, 8)), parseInt8(SubSeq(str, 9, 16)))

nRounds == 24

\* round constants of keccak_f_1600, indexed 0..23
RCstr ==
    << "0000000000000001", "0000000000008082", "800000000000808a",
       "8000000080008000", "000000000000808b", "0000000080000001",
       "8000000080008081", "8000000000008009", "000000000000008a",
       "0000000000000088", "0000000080008009", "000000008000000a",
       "000000008000808b", "800000000000008b", "8000000000008089",
       "8000000000008003", "8000000000008002", "8000000000000080",
       "000000000000800a", "800000008000000a", "8000000080008081",
       "8000000000008080", "0000000080000001", "8000000080008008" >>

RCseq == << fromString(RCstr[1]), fromString(RCstr[2]), fromString(RCstr[3]),
            fromString(RCstr[4]), fromString(RCstr[5]), fromString(RCstr[6]),
            fromString(RCstr[7]), fromString(RCstr[8]), fromString(RCstr[9]),
            fromString(RCstr[10]), fromString(RCstr[11]), fromString(RCstr[12]),
            fromString(RCstr[13]), fromString(RCstr[14]), fromString(RCstr[15]),
            fromString(RCstr[16]), fromString(RCstr[17]), fromString(RCstr[18]),
            fromString(RCstr[19]), fromString(RCstr[20]), fromString(RCstr[21]),
            fromString(RCstr[22]), fromString(RCstr[23]), fromString(RCstr[24]) >>

RC(rnd) == RCseq[rnd + 1]

\* theta, first loop: C[x] is the XOR of the five lanes of column x
ThetaC(a) ==
    Array5(LAMBDA x :
        Long(Xor(Xor(Xor(Xor(a[x][0].hi, a[x][1].hi), a[x][2].hi), a[x][3].hi), a[x][4].hi),
             Xor(Xor(Xor(Xor(a[x][0].lo, a[x][1].lo), a[x][2].lo), a[x][3].lo), a[x][4].lo)))

\* the rotation amount of theta
ThetaOffset == 1

\* theta, second loop: D[x] = C[x-1] ^ ROT(C[x+1], 1)
ThetaD(C) ==
    Array5(LAMBDA x :
        Long(Xor(C[(x + 4) % 5].hi, rotl(C[(x + 1) % 5], ThetaOffset).hi),
             Xor(C[(x + 4) % 5].lo, rotl(C[(x + 1) % 5], ThetaOffset).lo)))

\* mutant of Theta: C[x] is a[x][0] itself, not a clone, so that a[x][0]
\* holds the column parity when D[x] is XORed into it
ThetaAliased(a) ==
    ByValue(LAMBDA C :
                ByValue(LAMBDA D : Array5(LAMBDA x : Array5(LAMBDA y :
                            IF y = 0
                            THEN Long(Xor(C[x].hi, D[x].hi), Xor(C[x].lo, D[x].lo))
                            ELSE Long(Xor(a[x][y].hi, D[x].hi), Xor(a[x][y].lo, D[x].lo)))),
                        ByValue(ThetaD, C)),
            ByValue(ThetaC, a))

\* theta: a[x,y] = a[x,y] ^ D[x]
Theta(a) ==
    ByValue(LAMBDA D : Array5(LAMBDA x : Array5(LAMBDA y :
                Long(Xor(a[x][y].hi, D[x].hi), Xor(a[x][y].lo, D[x].lo)))),
            ByValue(ThetaD, ByValue(ThetaC, a)))

\* mutant of RhoOffset: the offsets start at t = 0 with 0
RhoOffsetFromZero(t) == ((t * (t + 1)) \div 2) % 64

\* rho: the rotation amount of iteration t
RhoOffset(t) == (((t + 1) * (t + 2)) \div 2) % 64

\* mutant of RhoPiIter: the rotation offset is t(t+1)/2
RhoPiIterOffset(s, t) ==
    LET X == s.y
        Y == (2 * s.x + 3 * s.y) % 5
        tmp == s.a[X][Y]
    IN  [a |-> [s.a EXCEPT ![X][Y] = rotl(s.current, ((t * (t + 1)) \div 2) % 64)],
         x |-> X, y |-> Y, current |-> tmp]

\* mutant of RhoPiIter: the lane about to be overwritten is not cached;
\* current becomes the lane just written
RhoPiIterOverwritten(s, t) ==
    LET X == s.y
        Y == (2 * s.x + 3 * s.y) % 5
        b == [s.a EXCEPT ![X][Y] = rotl(s.current, RhoOffset(t))]
    IN  [a |-> b, x |-> X, y |-> Y, current |-> b[X][Y]]

\* rho + pi: the body of the loop over t; s holds a, x, y and current
RhoPiIter(s, t) ==
    LET X == s.y
        Y == (2 * s.x + 3 * s.y) % 5
        tmp == s.a[X][Y]
    IN  [a |-> [s.a EXCEPT ![X][Y] = rotl(s.current, RhoOffset(t))],
         x |-> X, y |-> Y, current |-> tmp]

\* rho + pi: the iterations from..(to - 1) in order (computed by halves to
\* keep the evaluation shallow)
RECURSIVE RhoPiLoop(_, _, _)
RhoPiLoop(s, from, to) ==
    IF to - from = 1 THEN RhoPiIter(s, from)
    ELSE LET mid == (from + to) \div 2
         IN  ByValue(LAMBDA b : RhoPiLoop(b, mid, to), RhoPiLoop(s, from, mid))

RhoPi(a) == RhoPiLoop([a |-> a, x |-> 1, y |-> 0, current |-> a[1][0]], 0, 24).a

\* mutant of ChiLane: the results are not made unsigned
ChiLaneSigned(c0, c1, c2) ==
    Long(Xor(c0.hi, And(Not(c1.hi), c2.hi)),
         Xor(c0.lo, And(Not(c1.lo), c2.lo)))

\* a[x][y] of chi from the three lanes it reads
ChiLane(c0, c1, c2) ==
    Long(Shru(Xor(c0.hi, And(Not(c1.hi), c2.hi)), 0),
         Shru(Xor(c0.lo, And(Not(c1.lo), c2.lo)), 0))

\* mutant of Chi: no copy of the plane is taken, so x = 3 and x = 4 read the
\* lanes x = 0 and x = 1 already written
ChiInPlace(a) ==
    LET n0(y) == ChiLane(a[0][y], a[1][y], a[2][y])
        n1(y) == ChiLane(a[1][y], a[2][y], a[3][y])
        n2(y) == ChiLane(a[2][y], a[3][y], a[4][y])
        n3(y) == ChiLane(a[3][y], a[4][y], n0(y))
        n4(y) == ChiLane(a[4][y], n0(y), n1(y))
    IN  Array5(LAMBDA x : Array5(LAMBDA y :
            IF x = 0 THEN n0(y) ELSE IF x = 1 THEN n1(y) ELSE IF x = 2 THEN n2(y)
            ELSE IF x = 3 THEN n3(y) ELSE n4(y)))

\* chi, computed plane by plane from a copy of the plane
Chi(a) ==
    Array5(LAMBDA x : Array5(LAMBDA y :
        ChiLane(a[x][y], a[(x + 1) % 5][y], a[(x + 2) % 5][y])))

\* mutant of Iota: the round constant is XORed into lane (1,0) as well
IotaTwoLanes(a, rnd) ==
    [a EXCEPT ![0][0] = Long(Shru(Xor(a[0][0].hi, RC(rnd).hi), 0),
                             Shru(Xor(a[0][0].lo, RC(rnd).lo), 0)),
              ![1][0] = Long(Shru(Xor(a[1][0].hi, RC(rnd).hi), 0),
                             Shru(Xor(a[1][0].lo, RC(rnd).lo), 0))]

\* iota: the round constant is XORed into lane (0,0)
Iota(a, rnd) ==
    [a EXCEPT ![0][0] = Long(Shru(Xor(a[0][0].hi, RC(rnd).hi), 0),
                             Shru(Xor(a[0][0].lo, RC(rnd).lo), 0))]

\* one round of keccak_f_1600, each step mapping applied to the state the
\* one before it has left
Round(a, rnd) ==
    ByValue(LAMBDA b : Iota(b, rnd), ByValue(Chi, ByValue(RhoPi, ByValue(Theta, a))))

\* the rounds from..(to - 1) in order (computed by halves to keep the
\* evaluation shallow)
RECURSIVE Rounds(_, _, _)
Rounds(a, from, to) ==
    IF to - from = 1 THEN Round(a, from)
    ELSE LET mid == (from + to) \div 2
         IN  ByValue(LAMBDA b : Rounds(b, mid, to), Rounds(a, from, mid))

\* Sha3.keccak_f_1600(a): the state after all rounds
keccak_f_1600(a) == Rounds(a, 0, nRounds)

\* the number 0, and the state as keccak1600 creates it: 25 lanes Long(0, 0)
Zero32 == Uint32({})
ZeroState == Array5(LAMBDA x : Array5(LAMBDA y : Long(Zero32, Zero32)))

(***************************************************************************)
(* Strings.  A JavaScript string is a sequence of UTF-16 code units; the   *)
(* messages considered hold no surrogates and no line terminators.  The    *)
(* hex output is kept as a TLA+ string.                                    *)
(***************************************************************************)

\* the characters messages are written with: space, minus, digits, letters
Digits == "0123456789"
Upper == "ABCDEFGHIJKLMNOPQRSTUVWXYZ"
Lower == "abcdefghijklmnopqrstuvwxyz"
IndexOf(table, ch) == CHOOSE n \in 1..Len(table) : SubSeq(table, n, n) = ch
Occurs(table, ch) == \E n \in 1..Len(table) : SubSeq(table, n, n) = ch

\* code unit of such a character
CharCode(ch) ==
    IF ch = " " THEN 32
    ELSE IF ch = "-" THEN 45
    ELSE IF Occurs(Digits, ch) THEN 47 + IndexOf(Digits, ch)
    ELSE IF Occurs(Upper, ch) THEN 64 + IndexOf(Upper, ch)
    ELSE 96 + IndexOf(Lower, ch)

\* the JavaScript string written as the TLA+ string s (characters of CharCode only)
Js(s) == [k \in 1..Len(s) |-> CharCode(SubSeq(s, k, k))]

\* String.prototype.repeat, for a one-character string
Repeat(u, n) == [k \in 1..n |-> u]

\* mutant of utf8Bytes: the code unit itself, no encoding
utf8None(u) == << u >>

\* UTF-8 bytes of one code unit of the Basic Multilingual Plane
utf8Bytes(u) ==
    IF u < 128 THEN << u >>
    ELSE IF u < 2048 THEN << 192 + (u \div 64), 128 + (u % 64) >>
    ELSE << 224 + (u \div 4096), 128 + ((u \div 64) % 64), 128 + (u % 64) >>

\* utf8Encode(str): one character per UTF-8 byte, the bytes of the characters
\* of str in order (computed by halves to keep the evaluation shallow)
RECURSIVE utf8Encode(_)
utf8Encode(str) ==
    IF Len(str) = 0 THEN << >>
    ELSE IF Len(str) = 1 THEN utf8Bytes(str[1])
    ELSE LET h == Len(str) \div 2
         IN  utf8Encode(SubSeq(str, 1, h)) \o utf8Encode(SubSeq(str, h + 1, Len(str)))

\* character classes of parseInt(_, 16)
IsHexDigit(u) == u \in (48..57) \cup (97..102) \cup (65..70)
HexDigitVal(u) == IF u \in 48..57 THEN u - 48 ELSE IF u \in 97..102 THEN u - 87 ELSE u - 55
IsWhiteSpace(u) == u \in {9, 11, 12, 32, 160}
IsSign(u) == u \in {43, 45}

NaN == [nan |-> TRUE, val |-> 0]
Num(v) == [nan |-> FALSE, val |-> v]

\* parseInt(byte, 16) of the two-character string <<c1, c2>>: leading white
\* space is skipped, then an optional sign, then an optional 0x prefix, then
\* hex digits up to the first character that is none; no digit gives NaN
parseInt16(c1, c2) ==
    IF IsWhiteSpace(c1) THEN
        IF IsHexDigit(c2) THEN Num(HexDigitVal(c2)) ELSE NaN
    ELSE IF IsSign(c1) THEN
        IF IsHexDigit(c2)
        THEN Num(IF c1 = 45 THEN 0 - HexDigitVal(c2) ELSE HexDigitVal(c2))
        ELSE NaN
    ELSE IF IsHexDigit(c1) THEN
        IF c1 = 48 /\ c2 \in {120, 88} THEN NaN
        ELSE IF IsHexDigit(c2) THEN Num(16 * HexDigitVal(c1) + HexDigitVal(c2))
        ELSE Num(HexDigitVal(c1))
    ELSE NaN

\* String.fromCharCode(n): ToUint16 of n, NaN gives 0
fromCharCode(n) == IF n.nan THEN 0 ELSE n.val % 65536

\* str.replace(u, ''): the first occurrence of the character u is removed
replaceFirst(str, u) ==
    IF \E k \in 1..Len(str) : str[k] = u
    THEN LET first == CHOOSE k \in 1..Len(str) :
                          str[k] = u /\ \A j \in 1..(k - 1) : str[j] # u
         IN  SubSeq(str, 1, first - 1) \o SubSeq(str, first + 1, Len(str))
    ELSE str

\* hexBytesToString(hexStr): [threw, str]; match(/.{2}/g) is null for a
\* one-character string and null.map throws a TypeError
hexBytesToString(hexStr) ==
    LET str == replaceFirst(hexStr, 32)
    IN  IF str = << >> THEN [threw |-> FALSE, str |-> << >>]
        ELSE IF Len(str) < 2 THEN [threw |-> TRUE, str |-> << >>]
        ELSE [threw |-> FALSE,
              str |-> [k \in 1..(Len(str) \div 2) |->
                          fromCharCode(parseInt16(str[2 * k - 1], str[2 * k]))]]

\* mutant of Encode: every msgFormat but 'string' selects the hex decoding
EncodeElseHex(str, msgFormat) ==
    IF msgFormat = "string" THEN [threw |-> FALSE, str |-> utf8Encode(str)]
    ELSE hexBytesToString(str)

\* the switch on opt.msgFormat
Encode(str, msgFormat) ==
    IF msgFormat = "hex-bytes" THEN hexBytesToString(str)
    ELSE [threw |-> FALSE, str |-> utf8Encode(str)]

\* Object.assign(defaults, options): options is a function on the keys it holds
Keys == {"padding", "msgFormat", "outFormat"}
defaults == [padding |-> "sha-3", msgFormat |-> "string", outFormat |-> "hex"]
Assign(target, source) ==
    [k \in Keys |-> IF k \in DOMAIN source THEN source[k] ELSE target[k]]

\* mutant of Pad: no padding block of its own when the message ends on a
\* block boundary
PadNoExtraBlock(str, bitrate, padding) ==
    LET q == ((bitrate \div 8) - (Len(str) % (bitrate \div 8))) % (bitrate \div 8)
    IN  IF q = 0 THEN str
        ELSE IF q = 1 THEN str \o << IF padding = "keccak" THEN 129 ELSE 134 >>
        ELSE str \o << IF padding = "keccak" THEN 1 ELSE 6 >>
                 \o Repeat(0, q - 2)
                 \o << 128 >>

\* mutant of Pad: the case q = 1 is not told apart
PadNoMerge(str, bitrate, padding) ==
    LET q == (bitrate \div 8) - (Len(str) % (bitrate \div 8))
    IN  str \o << IF padding = "keccak" THEN 1 ELSE 6 >>
            \o Repeat(0, q - 2)
            \o << 128 >>

\* append padding: M || 0110*1
Pad(str, bitrate, padding) ==
    LET q == (bitrate \div 8) - (Len(str) % (bitrate \div 8))
    IN  IF q = 1 THEN str \o << IF padding = "keccak" THEN 129 ELSE 134 >>
        ELSE str \o << IF padding = "keccak" THEN 1 ELSE 6 >>
                 \o Repeat(0, q - 2)
                 \o << 128 >>

\* bits of the 16-bit value v, moved up by off
Bits16(v, off) == {k \in off..(off + 15) : (v \div (2 ^ (k - off))) % 2 = 1}

\* (c0 << 0) + (c1 << 8) + (c2 << 16) + (c3 << 24) as it enters the XOR: the
\* sum of four 32-bit values, taken modulo 2^32
Word(c0, c1, c2, c3) ==
    LET t == c0 + c1 * 256
        lo16 == t % 65536
        hi16 == ((t \div 65536) + c2 + (c3 % 256) * 256) % 65536
    IN  Int32(Bits16(lo16, 0) \cup Bits16(hi16, 16))

\* charCodeAt(p), p counted from 0
charCodeAt(str, p) == str[p + 1]

\* absorbing one block: the body of the loop over j
AbsorbLane(st, str, off, j) ==
    LET lo == Word(charCodeAt(str, off + j * 8 + 0), charCodeAt(str, off + j * 8 + 1),
                   charCodeAt(str, off + j * 8 + 2), charCodeAt(str, off + j * 8 + 3))
        hi == Word(charCodeAt(str, off + j * 8 + 4), charCodeAt(str, off + j * 8 + 5),
                   charCodeAt(str, off + j * 8 + 6), charCodeAt(str, off + j * 8 + 7))
        x == j % 5
        y == j \div 5
    IN  [st EXCEPT ![x][y] = Long(Xor(st[x][y].hi, hi), Xor(st[x][y].lo, lo))]

\* the iterations from..(to - 1) of the loop over j in order (computed by
\* halves to keep the evaluation shallow)
RECURSIVE AbsorbLoop(_, _, _, _, _)
AbsorbLoop(st, str, off, from, to) ==
    IF to - from = 1 THEN AbsorbLane(st, str, off, from)
    ELSE LET mid == (from + to) \div 2
         IN  ByValue(LAMBDA b : AbsorbLoop(b, str, off, mid, to),
                     AbsorbLoop(st, str, off, from, mid))

\* absorbing one block: the loop over j from j on
AbsorbLanes(st, str, off, bitrate, j) == AbsorbLoop(st, str, off, j, bitrate \div 64)

\* block size in bytes
blocksize(bitrate) == (bitrate \div 64) * 8

(***************************************************************************)
(* Squeezing: Long.toString and the formatting of the digest.              *)
(***************************************************************************)

\* hex digit k (0 the least significant) of the 32-bit pattern of h
Nibble(h, k) ==
      (IF 4 * k \in h.b THEN 1 ELSE 0) + (IF 4 * k + 1 \in h.b THEN 2 ELSE 0)
    + (IF 4 * k + 2 \in h.b THEN 4 ELSE 0) + (IF 4 * k + 3 \in h.b THEN 8 ELSE 0)

\* the 32-bit pattern of h as two 16-bit values
Low16(h) == Nibble(h, 0) + 16 * Nibble(h, 1) + 256 * Nibble(h, 2) + 4096 * Nibble(h, 3)
High16(h) == Nibble(h, 4) + 16 * Nibble(h, 5) + 256 * Nibble(h, 6) + 4096 * Nibble(h, 7)

\* the absolute value of the number h as two 16-bit values <<high, low>>
Magnitude(h) ==
    IF h.neg
    THEN << (65535 - High16(h) + (IF Low16(h) = 0 THEN 1 ELSE 0)) % 65536,
            (65536 - Low16(h)) % 65536 >>
    ELSE << High16(h), Low16(h) >>

HexChar(n) == SubSeq(HexDigits, n + 1, n + 1)
Hex4(v) == HexChar(v \div 4096) \o HexChar((v \div 256) % 16)
           \o HexChar((v \div 16) % 16) \o HexChar(v % 16)

RECURSIVE StripZeros(_)
StripZeros(s) ==
    IF Len(s) > 1 /\ SubSeq(s, 1, 1) = "0" THEN StripZeros(SubSeq(s, 2, Len(s))) ELSE s

\* Number.prototype.toString(16)
NumberToString16(h) ==
    (IF h.neg THEN "-" ELSE "") \o StripZeros(Hex4(Magnitude(h)[1]) \o Hex4(Magnitude(h)[2]))

\* ('00000000' + s).slice(-8)
PadSlice8(s) == SubSeq("00000000" \o s, Len(s) + 1, Len(s) + 8)

\* mutant of LongToString: the halves in the wrong order
LongToStringLoHi(this) ==
    PadSlice8(NumberToString16(this.lo)) \o PadSlice8(NumberToString16(this.hi))

\* Sha3.Long.toString()
LongToString(this) ==
    PadSlice8(NumberToString16(this.hi)) \o PadSlice8(NumberToString16(this.lo))

\* match(/.{2}/g): the pairs of s, a last odd character is dropped
Match2(s) == [k \in 1..(Len(s) \div 2) |-> SubSeq(s, 2 * k - 1, 2 * k)]

\* mutant of Match8to16: match(/.{16}/g), groups of 16 only
RECURSIVE Match16(_)
Match16(s) ==
    IF Len(s) < 16 THEN << >>
    ELSE << SubSeq(s, 1, 16) >> \o Match16(SubSeq(s, 17, Len(s)))

\* match(/.{8,16}/g): groups of 16, then one of 8..15 if that many remain
RECURSIVE Match8to16(_)
Match8to16(s) ==
    IF Len(s) < 8 THEN << >>
    ELSE LET n == IF Len(s) < 16 THEN Len(s) ELSE 16
         IN  << SubSeq(s, 1, n) >> \o Match8to16(SubSeq(s, n + 1, Len(s)))

\* Array.prototype.join (computed by halves to keep the evaluation shallow)
RECURSIVE Join(_, _)
Join(list, sep) ==
    IF Len(list) = 0 THEN ""
    ELSE IF Len(list) = 1 THEN list[1]
    ELSE LET h == Len(list) \div 2
         IN  Join(SubSeq(list, 1, h), sep) \o sep \o Join(SubSeq(list, h + 1, Len(list)), sep)

\* Array.prototype.reverse
Reverse(list) == [k \in 1..Len(list) |-> list[Len(list) + 1 - k]]

\* mutant of transpose: the array as it is, x before y
transposeNot(array) == array

\* transpose(array): to iterate across y before x
transpose(array) == Array5(LAMBDA row : Array5(LAMBDA col : array[col][row]))

\* .map(f).join('') of a five-element array
MapJoin5(array, f(_)) ==
    f(array[0]) \o f(array[1]) \o f(array[2]) \o f(array[3]) \o f(array[4])

\* mutant of mdLength: the digest truncated to l/8 characters
mdLengthBytes(cap) == (cap \div 2) \div 8

\* number of hex characters of the digest: l/4 with l = c/2
mdLength(cap) == (cap \div 2) \div 4

\* the squeezing phase up to the truncation to l bits
Squeeze(st, cap) ==
    LET full == MapJoin5(transpose(st), LAMBDA plane :
                    MapJoin5(plane, LAMBDA lane :
                        Join(Reverse(Match2(LongToString(lane))), "")))
    IN  SubSeq(full, 1, mdLength(cap))

\* grouping of the digest into bytes or words
Format(digest, outFormat) ==
    IF outFormat = "hex-b" THEN Join(Match2(digest), " ")
    ELSE IF outFormat = "hex-w" THEN Join(Match8to16(digest), " ")
    ELSE digest

(***************************************************************************)
(* Sha3.keccak1600 as a function of its arguments.                         *)
(***************************************************************************)

\* the absorbing phase from block offset off on
RECURSIVE AbsorbFrom(_, _, _, _)
AbsorbFrom(st, str, bitrate, off) ==
    IF off < Len(str)
    THEN ByValue(LAMBDA b : AbsorbFrom(b, str, bitrate, off + blocksize(bitrate)),
                 ByValue(keccak_f_1600, AbsorbLanes(st, str, off, bitrate, 0)))
    ELSE st

\* keccak1600(r, c, M, options): [threw, md]
keccak1600(bitrate, cap, message, options) ==
    LET o == Assign(defaults, options)
        enc == Encode(message, o.msgFormat)
    IN  IF enc.threw THEN [threw |-> TRUE, md |-> ""]
        ELSE [threw |-> FALSE,
              md |-> ByValue(LAMBDA digest : Format(digest, o.outFormat),
                         ByValue(LAMBDA st : Squeeze(st, cap),
                             ByValue(LAMBDA padded : AbsorbFrom(ZeroState, padded, bitrate, 0),
                                 Pad(enc.str, bitrate, o.padding))))]

(***************************************************************************)
(* The calls, step by step.                                                *)
(***************************************************************************)

\* the invocations that may run side by side
NProcs == 2
Procs == 1..NProcs

\* an invocation that has not been called yet
NoCall ==
    [pc |-> "idle", r |-> 0, c |-> 0, M |-> << >>, opt |-> defaults,
     msg |-> << >>, a |-> 0, i |-> 0, md |-> ""]

TasksIdle ==
    /\ inv = [p \in Procs |-> NoCall]
    /\ heap = << >>

\* Sha512.Long.add not called
Sha512Idle ==
    sha512 = [pc |-> "idle", this |-> Long(Zero32, Zero32), that |-> Long(Zero32, Zero32),
              sum |-> Long(Zero32, Zero32)]

\* AesCtr not called
AesIdle ==
    aes = [pc |-> "idle", plaintext |-> << >>, password |-> << >>, nBits |-> 0,
           now |-> [ms |-> 0, rnd |-> 0, sec |-> 0], ciphertext |-> "",
           decrypted |-> [threw |-> FALSE, text |-> << >>],
           P |-> << >>, key |-> << >>, T0 |-> << >>, T |-> << >>, C |-> << >>, D |-> << >>]

\* Tea not called
TeaIdle ==
    tea = [pc |-> "idle", plaintext |-> << >>, password |-> << >>, v |-> << >>,
           k |-> << >>, q |-> 0, sum |-> [times |-> 0, w |-> Zero32],
           ciphertext |-> "", decrypted |-> << >>]

\* no Long under rotation
LongIdle ==
    /\ long0 = Long(Zero32, Zero32)
    /\ long = long0
    /\ shifts = << >>

\* no call of keccak1600 yet
Sha3Idle ==
    /\ pc = "idle"
    /\ r = 0
    /\ c = 0
    /\ M = << >>
    /\ opt = defaults
    /\ msg = << >>
    /\ state = ZeroState
    /\ i = 0
    /\ round = 0
    /\ md = ""

Init == Sha3Idle /\ TasksIdle /\ LongIdle /\ TeaIdle /\ AesIdle /\ Sha512Idle

\* mutant of Call: the state array of the previous call is used again
CallReusingState(bitrate, cap, message, options) ==
    /\ pc \in {"idle", "returned", "threw"}
    /\ r' = bitrate
    /\ c' = cap
    /\ M' = message
    /\ opt' = Assign(defaults, options)
    /\ LET enc == Encode(message, opt'.msgFormat)
       IN  /\ msg' = enc.str
           /\ pc' = IF enc.threw THEN "threw" ELSE "pad"
    /\ state' = state
    /\ i' = 0
    /\ round' = 0
    /\ md' = ""
    /\ UNCHANGED notSha3

\* entry of keccak1600: options, encoding of the message, creation of the state
Call(bitrate, cap, message, options) ==
    /\ pc \in {"idle", "returned", "threw"}
    /\ r' = bitrate
    /\ c' = cap
    /\ M' = message
    /\ opt' = Assign(defaults, options)
    /\ LET enc == Encode(message, opt'.msgFormat)
       IN  /\ msg' = enc.str
           /\ pc' = IF enc.threw THEN "threw" ELSE "pad"
    /\ state' = ZeroState
    /\ i' = 0
    /\ round' = 0
    /\ md' = ""
    /\ UNCHANGED notSha3

hash224(message, options) == Call(1152, 448, message, options)
hash256(message, options) == Call(1088, 512, message, options)
hash384(message, options) == Call(832, 768, message, options)
hash512(message, options) == Call(576, 1024, message, options)

\* append padding
PadStep ==
    /\ pc = "pad"
    /\ msg' = Pad(msg, r, opt.padding)
    /\ pc' = "absorb"
    /\ UNCHANGED << r, c, M, opt, state, i, round, md >>
    /\ UNCHANGED notSha3

\* absorbing phase, one block: XOR of the block into the state; keccak_f_1600 follows
AbsorbStep ==
    /\ pc = "absorb"
    /\ i < Len(msg)
    /\ state' = AbsorbLanes(state, msg, i, r, 0)
    /\ round' = 0
    /\ pc' = "theta"
    /\ UNCHANGED << r, c, M, opt, msg, i, md >>
    /\ UNCHANGED notSha3

ThetaStep ==
    /\ pc = "theta"
    /\ state' = Theta(state)
    /\ pc' = "rhopi"
    /\ UNCHANGED << r, c, M, opt, msg, i, round, md >>
    /\ UNCHANGED notSha3

RhoPiStep ==
    /\ pc = "rhopi"
    /\ state' = RhoPi(state)
    /\ pc' = "chi"
    /\ UNCHANGED << r, c, M, opt, msg, i, round, md >>
    /\ UNCHANGED notSha3

ChiStep ==
    /\ pc = "chi"
    /\ state' = Chi(state)
    /\ pc' = "iota"
    /\ UNCHANGED << r, c, M, opt, msg, i, round, md >>
    /\ UNCHANGED notSha3

\* mutant of IotaStep: the loop over the rounds ends one round early
IotaStepEarly ==
    /\ pc = "iota"
    /\ state' = Iota(state, round)
    /\ round' = round + 1
    /\ IF round + 1 < nRounds - 1
       THEN pc' = "theta" /\ i' = i
       ELSE pc' = "absorb" /\ i' = i + blocksize(r)
    /\ UNCHANGED << r, c, M, opt, msg, md >>
    /\ UNCHANGED notSha3

\* iota ends the round; after the last round keccak_f_1600 returns and the
\* absorbing loop moves on to the next block
IotaStep ==
    /\ pc = "iota"
    /\ state' = Iota(state, round)
    /\ round' = round + 1
    /\ IF round + 1 < nRounds
       THEN pc' = "theta" /\ i' = i
       ELSE pc' = "absorb" /\ i' = i + blocksize(r)
    /\ UNCHANGED << r, c, M, opt, msg, md >>
    /\ UNCHANGED notSha3

\* mutant of SqueezeStep: the absorbing loop is left after the first block
SqueezeStepAfterFirst ==
    /\ pc = "absorb"
    /\ i > 0
    /\ md' = Format(Squeeze(state, c), opt.outFormat)
    /\ pc' = "returned"
    /\ UNCHANGED << r, c, M, opt, msg, state, i, round >>
    /\ UNCHANGED notSha3

\* squeezing phase, grouping and return
SqueezeStep ==
    /\ pc = "absorb"
    /\ ~(i < Len(msg))
    /\ md' = Format(Squeeze(state, c), opt.outFormat)
    /\ pc' = "returned"
    /\ UNCHANGED << r, c, M, opt, msg, state, i, round >>
    /\ UNCHANGED notSha3

(***************************************************************************)
(* The calls considered.                                                   *)
(***************************************************************************)

PaddingValues == {"sha-3", "keccak", "sha3"}
MsgFormatValues == {"string", "hex-bytes", "hex"}
OutFormatValues == {"hex", "hex-b", "hex-w", "base64"}
ValuesOf(key) ==
    IF key = "padding" THEN PaddingValues
    ELSE IF key = "msgFormat" THEN MsgFormatValues
    ELSE OutFormatValues

\* every options object over the three keys, any of them absent
OptionRecords ==
    UNION {{f \in [D -> PaddingValues \cup MsgFormatValues \cup OutFormatValues] :
                \A key \in D : f[key] \in ValuesOf(key)} : D \in SUBSET Keys}

\* options undefined
NoOptions == << >>

BasicOptions == {NoOptions, [msgFormat |-> "hex-bytes"], [padding |-> "keccak"]}

smiley == << 9786 >>

Messages ==
    {Js(""), Js("abc"), smiley, Js("616263"), Js("e298ba"), Js("61 62 63"), Js("6162 63"),
     Js("616"), Js("zz"), Js("6"), Js("-1")}

\* messages that end one byte before a block boundary and on it
BoundaryMessages(bitrate) ==
    {Repeat(97, bitrate \div 8 - 1), Repeat(97, bitrate \div 8)}

\* the options objects that select the hex-bytes input mode
HexBytesRecords ==
    {o \in OptionRecords : "msgFormat" \in DOMAIN o /\ o["msgFormat"] = "hex-bytes"}

Inputs(bitrate) ==
    (Messages \X BasicOptions)
        \cup ({Js("abc")} \X OptionRecords)
        \cup ({Js("6")} \X HexBytesRecords)
        \cup (BoundaryMessages(bitrate) \X {NoOptions})

Next ==
    \/ \E in \in Inputs(1152) : hash224(in[1], in[2])
    \/ \E in \in Inputs(1088) : hash256(in[1], in[2])
    \/ \E in \in Inputs(832) : hash384(in[1], in[2])
    \/ \E in \in Inputs(576) : hash512(in[1], in[2])
    \/ PadStep
    \/ AbsorbStep
    \/ ThetaStep
    \/ RhoPiStep
    \/ ChiStep
    \/ IotaStep
    \/ SqueezeStep

Spec == Init /\ [][Next]_vars

\* the steps of a call that has been entered
Steps ==
    PadStep \/ AbsorbStep \/ ThetaStep \/ RhoPiStep \/ ChiStep \/ IotaStep \/ SqueezeStep

\* a call is under way: one of its steps can be taken (each step is guarded
\* by pc alone, but for the two complementary tests of the absorbing loop)
Running == pc \in {"pad", "absorb", "theta", "rhopi", "chi", "iota"}

\* a call that has been entered runs on: keccak1600 is straight-line code and
\* loops, with nothing to wait for.  This is weak fairness of Steps, with
\* Running standing for ENABLED <<Steps>>_vars
SpecFair == Init /\ [][Next]_vars /\ (<>[]Running => []<><<Steps>>_vars)

(***************************************************************************)
(* Padding alone: calls with messages of every length up to MaxPadLen,     *)
(* followed up to the end of the padding step.                             *)
(***************************************************************************)

MaxPadLen == 145

PadOptions == {NoOptions, [padding |-> "keccak"], [padding |-> "sha3"]}

NextPad ==
    \/ \E n \in 0..MaxPadLen, o \in PadOptions : hash224(Repeat(97, n), o)
    \/ \E n \in 0..MaxPadLen, o \in PadOptions : hash256(Repeat(97, n), o)
    \/ \E n \in 0..MaxPadLen, o \in PadOptions : hash384(Repeat(97, n), o)
    \/ \E n \in 0..MaxPadLen, o \in PadOptions : hash512(Repeat(97, n), o)
    \/ PadStep

SpecPad == Init /\ [][NextPad]_vars

(***************************************************************************)
(* Invocations side by side.  Each invocation p runs keccak1600 on its own *)
(* locals inv[p]; the state array it creates is heap[inv[p].a].  A step is *)
(* the entry, the padding, the absorbing of one block, one permutation or  *)
(* the squeezing, and the steps of the invocations interleave freely.      *)
(***************************************************************************)

\* mutant of TaskCall: one state array for all invocations, set to zero at
\* every entry
TaskCallShared(p, bitrate, cap, message, options) ==
    /\ inv[p].pc = "idle"
    /\ LET o == Assign(defaults, options)
           enc == Encode(message, o.msgFormat)
       IN  /\ heap' = IF enc.threw THEN heap ELSE << ZeroState >>
           /\ inv' = [inv EXCEPT ![p] =
                         [pc |-> IF enc.threw THEN "threw" ELSE "pad",
                          r |-> bitrate, c |-> cap, M |-> message, opt |-> o,
                          msg |-> enc.str, a |-> IF enc.threw THEN 0 ELSE 1,
                          i |-> 0, md |-> ""]]
    /\ UNCHANGED notTasks

\* entry of keccak1600 in invocation p: its own defaults object, its own
\* message string, and a state array newly created
TaskCall(p, bitrate, cap, message, options) ==
    /\ inv[p].pc = "idle"
    /\ LET o == Assign(defaults, options)
           enc == Encode(message, o.msgFormat)
       IN  /\ heap' = IF enc.threw THEN heap ELSE Append(heap, ZeroState)
           /\ inv' = [inv EXCEPT ![p] =
                         [pc |-> IF enc.threw THEN "threw" ELSE "pad",
                          r |-> bitrate, c |-> cap, M |-> message, opt |-> o,
                          msg |-> enc.str, a |-> IF enc.threw THEN 0 ELSE Len(heap) + 1,
                          i |-> 0, md |-> ""]]
    /\ UNCHANGED notTasks

TaskPad(p) ==
    /\ inv[p].pc = "pad"
    /\ inv' = [inv EXCEPT ![p].msg = Pad(inv[p].msg, inv[p].r, inv[p].opt.padding),
                          ![p].pc = "absorb"]
    /\ UNCHANGED << heap, notTasks >>

\* the block at offset i is XORed into the state array of p
TaskAbsorb(p) ==
    /\ inv[p].pc = "absorb"
    /\ inv[p].i < Len(inv[p].msg)
    /\ heap' = [heap EXCEPT ![inv[p].a] =
                    AbsorbLanes(heap[inv[p].a], inv[p].msg, inv[p].i, inv[p].r, 0)]
    /\ inv' = [inv EXCEPT ![p].pc = "permute"]
    /\ UNCHANGED notTasks

\* keccak_f_1600 on the state array of p
TaskPermute(p) ==
    /\ inv[p].pc = "permute"
    /\ heap' = [heap EXCEPT ![inv[p].a] = keccak_f_1600(heap[inv[p].a])]
    /\ inv' = [inv EXCEPT ![p].pc = "absorb", ![p].i = inv[p].i + blocksize(inv[p].r)]
    /\ UNCHANGED notTasks

TaskSqueeze(p) ==
    /\ inv[p].pc = "absorb"
    /\ ~(inv[p].i < Len(inv[p].msg))
    /\ inv' = [inv EXCEPT ![p].md = Format(Squeeze(heap[inv[p].a], inv[p].c),
                                            inv[p].opt.outFormat),
                          ![p].pc = "returned"]
    /\ UNCHANGED << heap, notTasks >>

\* the calls made side by side: the four variants, one and two blocks, the
\* three output formats, both paddings, a message that throws
TaskInputs ==
    { << 1088, 512, Js("abc"), NoOptions >>,
      << 576, 1024, Repeat(97, 72), [outFormat |-> "hex-w"] >>,
      << 1152, 448, Js("616263"), [msgFormat |-> "hex-bytes", outFormat |-> "hex-b"] >>,
      << 832, 768, Js(""), [padding |-> "keccak"] >>,
      << 1088, 512, Js("6"), [msgFormat |-> "hex-bytes"] >> }

NextTasks ==
    \/ \E p \in Procs, in \in TaskInputs : TaskCall(p, in[1], in[2], in[3], in[4])
    \/ \E p \in Procs : TaskPad(p)
    \/ \E p \in Procs : TaskAbsorb(p)
    \/ \E p \in Procs : TaskPermute(p)
    \/ \E p \in Procs : TaskSqueeze(p)

SpecTasks == Init /\ [][NextTasks]_vars

(***************************************************************************)
(* Sha3.Long.rotl on its own: a Long is constructed from two 32-bit halves *)
(* and rotated up to MaxRotations times, each call on the Long the call    *)
(* before returned.                                                        *)
(***************************************************************************)

\* the Long whose 64-bit value has exactly the bits of S set (bit 0 the
\* least significant), the halves as unsigned numbers
Lane64(S) ==
    Long(Uint32({k \in Bits32 : (k + 32) \in S}), Uint32({k \in Bits32 : k \in S}))

\* the lanes rotated: no bit, every single bit, bits on both sides of the
\* half boundary, all bits, every other bit, and halves that are negative
\* numbers (results of ^ with bit 31 set)
TestLanes ==
    {Lane64(S) : S \in {{}} \cup {{k} : k \in 0..63}
                        \cup {{0, 63}, {31, 32}, 0..63, {k \in 0..63 : k % 2 = 0}}}
        \cup {Long(Int32({31}), Int32(Bits32)), Long(Int32({0, 31}), Uint32({5}))}

MaxRotations == 2

InitLong ==
    /\ Sha3Idle
    /\ TasksIdle
    /\ TeaIdle
    /\ AesIdle
    /\ Sha512Idle
    /\ long0 \in TestLanes
    /\ long = long0
    /\ shifts = << >>

\* long = long.rotl(n)
Rotl(n) ==
    /\ Len(shifts) < MaxRotations
    /\ long' = rotl(long, n)
    /\ shifts' = Append(shifts, n)
    /\ UNCHANGED << long0, notLong >>

NextLong == \E n \in 0..64 : Rotl(n)

SpecLong == InitLong /\ [][NextLong]_vars

(***************************************************************************)
(* Block TEA (tea-block.js).  A word of the data vector or of the key is   *)
(* kept as its 32-bit pattern: v[p] += mx leaves a number that may lie     *)
(* outside the 32-bit range, but every reader of it (>>>, <<, ^, &) sees   *)
(* that pattern only.  Strings of bytes are sequences of character codes;  *)
(* the base64 text is a TLA+ string.                                       *)
(***************************************************************************)

\* the number held by the n bits off..(off + n - 1) of a 32-bit pattern
RECURSIVE Field(_, _, _)
Field(bits, off, n) ==
    IF n = 0 THEN 0
    ELSE (IF off \in bits THEN 1 ELSE 0) + 2 * Field(bits, off + 1, n - 1)

\* the 32-bit pattern of a + b
Add32(a, b) ==
    LET lo == Field(a.b, 0, 16) + Field(b.b, 0, 16)
        hi == Field(a.b, 16, 16) + Field(b.b, 16, 16) + (lo \div 65536)
    IN  Int32(Bits16(lo % 65536, 0) \cup Bits16(hi % 65536, 16))

\* the 32-bit pattern of a - b
Sub32(a, b) == Add32(a, Add32(Not(b), Uint32({0})))

\* delta = 0x9E3779B9
delta == Uint32(Bits16(31161, 0) \cup Bits16(40503, 16))

\* the 32-bit pattern of q * delta
RECURSIVE TimesDelta(_)
TimesDelta(q) ==
    IF q = 0 THEN Zero32 ELSE ByValue(LAMBDA a : Add32(a, delta), TimesDelta(q - 1))

\* Tea.strToLongs(s); s.charCodeAt(p) beyond the end of the string is NaN,
\* which the operators << and + take as 0
strToLongs(str) ==
    LET code(p) == IF p < Len(str) THEN charCodeAt(str, p) ELSE 0
    IN  [idx \in 1..((Len(str) + 3) \div 4) |->
            Word(code(4 * (idx - 1)), code(4 * (idx - 1) + 1),
                 code(4 * (idx - 1) + 2), code(4 * (idx - 1) + 3))]

\* Tea.longsToStr(l)
RECURSIVE longsToStr(_)
longsToStr(l) ==
    IF Len(l) = 0 THEN << >>
    ELSE << Field(l[1].b, 0, 8), Field(l[1].b, 8, 8), Field(l[1].b, 16, 8),
            Field(l[1].b, 24, 8) >> \o longsToStr(Tail(l))

\* mx = (z>>>5 ^ y<<2) + (y>>>3 ^ z<<4) ^ (sum^y) + (k[p&3 ^ e] ^ z) with
\* e = sum>>>2 & 3; k[idx] is undefined, 0 under ^, beyond the end of the key
TeaMx(z, y, sum, k, p) ==
    LET e == And(Shru(sum, 2), Uint32({0, 1}))
        idx == Field(Xor(Uint32(Bits16(p % 4, 0)), e).b, 0, 2)
        kw == IF idx < Len(k) THEN k[idx + 1] ELSE Zero32
    IN  Xor(Add32(Xor(Shru(z, 5), Shl(y, 2)), Xor(Shru(y, 3), Shl(z, 4))),
            Add32(Xor(sum, y), Xor(kw, z)))

\* Tea.encode, the loop over p from p on: z is the word assigned last, v[n-1]
\* when the round starts
RECURSIVE EncodeWords(_, _, _, _)
EncodeWords(v, k, sum, p) ==
    IF p >= Len(v) THEN v
    ELSE LET z == v[IF p > 0 THEN p ELSE Len(v)]
             y == v[((p + 1) % Len(v)) + 1]
         IN  ByValue(LAMBDA w : EncodeWords(w, k, sum, p + 1),
                     [v EXCEPT ![p + 1] = Add32(v[p + 1], TeaMx(z, y, sum, k, p))])

\* Tea.decode, the loop over p from p down: y is the word assigned last, v[0]
\* when the round starts
RECURSIVE DecodeWords(_, _, _, _)
DecodeWords(v, k, sum, p) ==
    IF p < 0 THEN v
    ELSE LET z == v[IF p > 0 THEN p ELSE Len(v)]
             y == v[IF p < Len(v) - 1 THEN p + 2 ELSE 1]
         IN  ByValue(LAMBDA w : DecodeWords(w, k, sum, p - 1),
                     [v EXCEPT ![p + 1] = Sub32(v[p + 1], TeaMx(z, y, sum, k, p))])

\* btoa(s) for a string of bytes
Base64Chars == Upper \o Lower \o Digits \o "+/"
RECURSIVE btoa(_)
btoa(str) ==
    LET ch(n) == SubSeq(Base64Chars, n + 1, n + 1)
    IN  IF Len(str) = 0 THEN ""
        ELSE IF Len(str) = 1
        THEN ch(str[1] \div 4) \o ch((str[1] % 4) * 16) \o "=="
        ELSE IF Len(str) = 2
        THEN ch(str[1] \div 4) \o ch((str[1] % 4) * 16 + (str[2] \div 16))
                 \o ch((str[2] % 16) * 4) \o "="
        ELSE ch(str[1] \div 4) \o ch((str[1] % 4) * 16 + (str[2] \div 16))
                 \o ch((str[2] % 16) * 4 + (str[3] \div 64)) \o ch(str[3] % 64)
                 \o btoa(SubSeq(str, 4, Len(str)))

\* atob(s) for a base64 text as btoa writes it
RECURSIVE atob(_)
atob(s) ==
    IF Len(s) < 4 THEN << >>
    ELSE LET val(p) == IndexOf(Base64Chars, SubSeq(s, p, p)) - 1
             b1 == val(1) * 4 + (val(2) \div 16)
             b2 == (val(2) % 16) * 16 + (val(3) \div 4)
             b3 == (val(3) % 4) * 64 + val(4)
         IN  IF SubSeq(s, 3, 4) = "==" THEN << b1 >>
             ELSE IF SubSeq(s, 4, 4) = "=" THEN << b1, b2 >>
             ELSE << b1, b2, b3 >> \o atob(SubSeq(s, 5, Len(s)))

\* decodeURIComponent(escape(str)): the UTF-16 code units of the UTF-8 byte
\* string str, or ok = FALSE where decodeURIComponent throws URIError
RECURSIVE decodeURIComponentEscape(_)
decodeURIComponentEscape(str) ==
    IF Len(str) = 0 THEN [ok |-> TRUE, s |-> << >>]
    ELSE LET b == str[1]
             len == IF b < 128 THEN 1 ELSE IF b \in 194..223 THEN 2
                    ELSE IF b \in 224..239 THEN 3 ELSE IF b \in 240..244 THEN 4 ELSE 0
             cp == IF len = 1 THEN b
                   ELSE IF len = 2 THEN (b - 192) * 64 + (str[2] - 128)
                   ELSE IF len = 3
                   THEN (b - 224) * 4096 + (str[2] - 128) * 64 + (str[3] - 128)
                   ELSE (b - 240) * 262144 + (str[2] - 128) * 4096
                            + (str[3] - 128) * 64 + (str[4] - 128)
             valid == /\ len > 0
                      /\ \A p \in 2..len : p <= Len(str) /\ str[p] \in 128..191
                      /\ len = 3 => (cp >= 2048 /\ cp \notin 55296..57343)
                      /\ len = 4 => cp \in 65536..1114111
             rest == decodeURIComponentEscape(SubSeq(str, len + 1, Len(str)))
         IN  IF ~valid THEN [ok |-> FALSE, s |-> << >>]
             ELSE IF ~rest.ok THEN rest
             ELSE [ok |-> TRUE,
                   s |-> (IF len < 4 THEN << cp >>
                          ELSE << 55296 + ((cp - 65536) \div 1024),
                                  56320 + ((cp - 65536) % 1024) >>) \o rest.s]

\* String.prototype.utf8Decode of tea-block.js: the string as it is when it
\* is no UTF-8
TeaUtf8Decode(str) ==
    LET d == decodeURIComponentEscape(str) IN IF d.ok THEN d.s ELSE str

\* plaintext.replace(/\0+$/, '')
RECURSIVE StripNuls(_)
StripNuls(str) ==
    IF Len(str) > 0 /\ str[Len(str)] = 0 THEN StripNuls(SubSeq(str, 1, Len(str) - 1))
    ELSE str

\* Tea.encrypt(plaintext, password) up to the loop of Tea.encode, where
\* q = Math.floor(6 + 52/n); utf8Encode of tea-block.js gives the UTF-8 bytes
\* of a string without surrogates
TeaEncrypt(plaintext, password) ==
    /\ tea.pc = "idle"
    /\ IF Len(plaintext) = 0
       THEN tea' = [tea EXCEPT !.pc = "encrypted", !.plaintext = plaintext,
                               !.password = password, !.ciphertext = ""]
       ELSE LET v0 == strToLongs(utf8Encode(plaintext))
                v == IF Len(v0) < 2 THEN << v0[1], Zero32 >> ELSE v0
                pw == utf8Encode(password)
            IN  tea' = [tea EXCEPT !.pc = "encode", !.plaintext = plaintext,
                                   !.password = password, !.v = v,
                                   !.k = strToLongs(SubSeq(pw, 1, IF Len(pw) < 16 THEN Len(pw) ELSE 16)),
                                   !.q = 6 + (52 \div Len(v)),
                                   !.sum = [times |-> 0, w |-> Zero32]]
    /\ UNCHANGED notTea

\* Tea.encode: one turn of while (q-- > 0)
TeaEncodeRound ==
    /\ tea.pc = "encode"
    /\ tea.q > 0
    /\ LET sum == [times |-> tea.sum.times + 1, w |-> Add32(tea.sum.w, delta)]
       IN  tea' = [tea EXCEPT !.q = tea.q - 1, !.sum = sum,
                              !.v = EncodeWords(tea.v, tea.k, sum.w, 0)]
    /\ UNCHANGED notTea

\* Tea.encode returns and Tea.encrypt returns the base64 text
TeaEncryptReturn ==
    /\ tea.pc = "encode"
    /\ ~(tea.q > 0)
    /\ tea' = [tea EXCEPT !.pc = "encrypted", !.q = tea.q - 1,
                          !.ciphertext = btoa(longsToStr(tea.v))]
    /\ UNCHANGED notTea

\* the number 52/0 and what Math.floor, + and * make of it: above every count
\* of rounds, and left as it is by -
Infinity == 2147483647

\* Math.floor(6 + 52/n) for the length n of a vector
DecodeRounds(n) == IF n = 0 THEN Infinity ELSE 6 + (52 \div n)

\* q*delta, with the 32 bits that >>> and ^ take from it; they take 0 from
\* Infinity
TimesDeltaSum(q) ==
    [times |-> q, w |-> IF q = Infinity THEN Zero32 ELSE TimesDelta(q)]

\* sum -= delta
LessDelta(sum) ==
    IF sum.times = Infinity THEN sum
    ELSE [times |-> sum.times - 1, w |-> Sub32(sum.w, delta)]

\* String.prototype.base64Decode: atob and Buffer pass over the white space
\* in the text
RECURSIVE NoBlanks(_)
NoBlanks(s) ==
    IF Len(s) = 0 THEN ""
    ELSE (IF SubSeq(s, 1, 1) = " " THEN "" ELSE SubSeq(s, 1, 1))
             \o NoBlanks(SubSeq(s, 2, Len(s)))

base64Decode(s) == atob(NoBlanks(s))

\* Tea.decrypt(ciphertext, password) up to the loop of Tea.decode
DecryptCall(ciphertext, password) ==
    IF Len(ciphertext) = 0
    THEN tea' = [tea EXCEPT !.pc = "decrypted", !.password = password,
                            !.ciphertext = ciphertext, !.decrypted = << >>]
    ELSE LET v == strToLongs(base64Decode(ciphertext))
             pw == utf8Encode(password)
             q == DecodeRounds(Len(v))
         IN  tea' = [tea EXCEPT !.pc = "decode", !.password = password,
                                !.ciphertext = ciphertext, !.v = v,
                                !.k = strToLongs(SubSeq(pw, 1, IF Len(pw) < 16 THEN Len(pw) ELSE 16)),
                                !.q = q,
                                !.sum = TimesDeltaSum(q)]

\* Tea.decrypt on the text Tea.encrypt returned and with the same password
TeaDecrypt ==
    /\ tea.pc = "encrypted"
    /\ DecryptCall(tea.ciphertext, tea.password)
    /\ UNCHANGED notTea

\* Tea.decrypt on a text of the caller
TeaDecryptText(ciphertext, password) ==
    /\ tea.pc = "idle"
    /\ DecryptCall(ciphertext, password)
    /\ UNCHANGED notTea

\* Tea.decode: one turn of while (sum != 0)
TeaDecodeRound ==
    /\ tea.pc = "decode"
    /\ tea.sum.times # 0
    /\ tea' = [tea EXCEPT !.v = DecodeWords(tea.v, tea.k, tea.sum.w, Len(tea.v) - 1),
                          !.sum = LessDelta(tea.sum)]
    /\ UNCHANGED notTea

\* Tea.decode returns and Tea.decrypt returns the text
TeaDecryptReturn ==
    /\ tea.pc = "decode"
    /\ tea.sum.times = 0
    /\ tea' = [tea EXCEPT !.pc = "decrypted",
                          !.decrypted = TeaUtf8Decode(StripNuls(longsToStr(tea.v)))]
    /\ UNCHANGED notTea

\* the texts and the passwords: no text, 1 to 9 bytes of ASCII, a text of
\* 13 bytes, characters of two and of three bytes, texts with U+0000 inside
\* and at the end; no password, short ones, one of 16 bytes, one of more
NextTea ==
    \/ \E plaintext \in {Js(""), Js("a"), Js("ab"), Js("abc"), Js("abcd"), Js("abcde"),
                          Js("abcdefg"), Js("abcdefgh"), Js("abcdefghi"),
                          Js("My big secret"), << 233 >>, smiley, << 97, 9786, 233 >>,
                          << 97, 0, 98 >>, << 97, 0 >>, << 0 >>},
          password \in {Js(""), Js("pw"), << 112, 257, 353 >>, Js("0123456789abcdef"),
                         Js("a password of more than 16")} :
           TeaEncrypt(plaintext, password)
    \/ TeaEncodeRound
    \/ TeaEncryptReturn
    \/ TeaDecrypt
    \/ TeaDecodeRound
    \/ TeaDecryptReturn

SpecTea == Init /\ [][NextTea]_vars

\* Tea.decrypt on the texts of a caller: no text, a blank, 3, 4, 5, 8 and 12
\* bytes in base64, a blank before a text
NextTeaDecrypt ==
    \/ \E ciphertext \in {"", " ", "YWJj", "YWJjZA==", "YWJjZGU=", "YWJjZGVmZ2g=",
                           "YWJjZGVmZ2hpamts", " YWJj"},
          password \in {Js(""), Js("pw")} :
           TeaDecryptText(ciphertext, password)
    \/ TeaDecodeRound
    \/ TeaDecryptReturn

SpecTeaDecrypt == Init /\ [][NextTeaDecrypt]_vars

(***************************************************************************)
(* AES in counter mode (aes-ctr.js).  Bytes are numbers 0..255 and byte    *)
(* strings are sequences of them.  Aes.cipher and Aes.keyExpansion are     *)
(* imported from aes.js, which implements FIPS 197; they are written here  *)
(* from the standard.  The nonce depends on the clock and on Math.random   *)
(* and is an input of the call.                                            *)
(***************************************************************************)

\* a ^ b for two numbers 0..15, and for two bytes
NibbleXor ==
    [a \in 0..15 |-> [b \in 0..15 |->
        Field(Xor(Uint32(Bits16(a, 0)), Uint32(Bits16(b, 0))).b, 0, 4)]]
ByteXor(a, b) == 16 * NibbleXor[a \div 16][b \div 16] + NibbleXor[a % 16][b % 16]

\* s[j] ^ t[j] for all j
XorBytes(s, t) == [j \in 1..Len(s) |-> ByteXor(s[j], t[j])]

\* FIPS 197 figure 7
sBox ==
    << 99, 124, 119, 123, 242, 107, 111, 197,  48,   1, 103,  43, 254, 215, 171, 118,
       202, 130, 201, 125, 250,  89,  71, 240, 173, 212, 162, 175, 156, 164, 114, 192,
       183, 253, 147,  38,  54,  63, 247, 204,  52, 165, 229, 241, 113, 216,  49,  21,
         4, 199,  35, 195,  24, 150,   5, 154,   7,  18, 128, 226, 235,  39, 178, 117,
         9, 131,  44,  26,  27, 110,  90, 160,  82,  59, 214, 179,  41, 227,  47, 132,
        83, 209,   0, 237,  32, 252, 177,  91, 106, 203, 190,  57,  74,  76,  88, 207,
       208, 239, 170, 251,  67,  77,  51, 133,  69, 249,   2, 127,  80,  60, 159, 168,
        81, 163,  64, 143, 146, 157,  56, 245, 188, 182, 218,  33,  16, 255, 243, 210,
       205,  12,  19, 236,  95, 151,  68,  23, 196, 167, 126,  61, 100,  93,  25, 115,
        96, 129,  79, 220,  34,  42, 144, 136,  70, 238, 184,  20, 222,  94,  11, 219,
       224,  50,  58,  10,  73,   6,  36,  92, 194, 211, 172,  98, 145, 149, 228, 121,
       231, 200,  55, 109, 141, 213,  78, 169, 108,  86, 244, 234, 101, 122, 174,   8,
       186, 120,  37,  46,  28, 166, 180, 198, 232, 221, 116,  31,  75, 189, 139, 138,
       112,  62, 181, 102,  72,   3, 246,  14,  97,  53,  87, 185, 134, 193,  29, 158,
       225, 248, 152,  17, 105, 217, 142, 148, 155,  30, 135, 233, 206,  85,  40, 223,
       140, 161, 137,  13, 191, 230,  66, 104,  65, 153,  45,  15, 176,  84, 187,  22 >>

\* FIPS 197 section 5.1: the state is kept as 16 bytes, byte r + 4c the one
\* of row r and column c
subBytes(s) == [j \in 1..Len(s) |-> sBox[s[j] + 1]]

shiftRows(s) ==
    [j \in 1..16 |-> s[((j - 1) % 4) + 4 * ((((j - 1) \div 4) + ((j - 1) % 4)) % 4) + 1]]

mixColumns(s) ==
    [j \in 1..16 |->
        LET xtime(a) == ByteXor((2 * a) % 256, IF a >= 128 THEN 27 ELSE 0)
            col == 4 * ((j - 1) \div 4)
            a0 == s[col + ((j - 1) % 4) + 1]
            a1 == s[col + (j % 4) + 1]
            a2 == s[col + ((j + 1) % 4) + 1]
            a3 == s[col + ((j + 2) % 4) + 1]
        IN  ByteXor(ByteXor(ByteXor(xtime(a0), ByteXor(xtime(a1), a1)), a2), a3)]

\* w is the key schedule as bytes, 16 for each round
addRoundKey(s, w, rnd) == XorBytes(s, SubSeq(w, 16 * rnd + 1, 16 * rnd + 16))

RECURSIVE CipherRounds(_, _, _)
CipherRounds(s, w, rnd) ==
    IF rnd = (Len(w) \div 16) - 1
    THEN addRoundKey(shiftRows(subBytes(s)), w, rnd)
    ELSE ByValue(LAMBDA t : CipherRounds(t, w, rnd + 1),
                 addRoundKey(mixColumns(shiftRows(subBytes(s))), w, rnd))

\* Aes.cipher(input, w): the first 16 bytes of input encrypted
cipher(input, w) == CipherRounds(addRoundKey(SubSeq(input, 1, 16), w, 0), w, 1)

\* FIPS 197 section 5.2: word number n of the schedule from the words
\* before; rCon holds the first byte of Rcon[1..10]
RECURSIVE ExpandKey(_, _, _)
ExpandKey(w, n, Nk) ==
    IF n = 4 * (Nk + 7) THEN w
    ELSE LET rCon == << 1, 2, 4, 8, 16, 32, 64, 128, 27, 54 >>
             prev == SubSeq(w, 4 * n - 3, 4 * n)
             temp == IF n % Nk = 0
                     THEN XorBytes(subBytes(<< prev[2], prev[3], prev[4], prev[1] >>),
                                   << rCon[n \div Nk], 0, 0, 0 >>)
                     ELSE IF Nk > 6 /\ n % Nk = 4 THEN subBytes(prev)
                     ELSE prev
         IN  ByValue(LAMBDA x : ExpandKey(x, n + 1, Nk),
                     w \o XorBytes(SubSeq(w, 4 * (n - Nk) + 1, 4 * (n - Nk) + 4), temp))

\* Aes.keyExpansion(key) for a key of 16, 24 or 32 bytes
keyExpansion(key) == ExpandKey(key, Len(key) \div 4, Len(key) \div 4)

\* TextEncoder().encode(str): UTF-8, a surrogate pair as the four bytes of
\* its code point, a surrogate without partner as U+FFFD
RECURSIVE TextEncode(_)
TextEncode(str) ==
    IF Len(str) = 0 THEN << >>
    ELSE IF str[1] \in 55296..56319 /\ Len(str) > 1 /\ str[2] \in 56320..57343
    THEN LET cp == 65536 + (str[1] - 55296) * 1024 + (str[2] - 56320)
         IN  << 240 + (cp \div 262144), 128 + ((cp \div 4096) % 64),
                128 + ((cp \div 64) % 64), 128 + (cp % 64) >>
                 \o TextEncode(SubSeq(str, 3, Len(str)))
    ELSE (IF str[1] \in 55296..57343 THEN << 239, 191, 189 >> ELSE utf8Bytes(str[1]))
             \o TextEncode(Tail(str))

\* the cipher key from the UTF-8 bytes of the password
AesCtrKey(password, nBits) ==
    LET nBytes == nBits \div 8
        pwBytes == [j \in 1..nBytes |-> IF j <= Len(password) THEN password[j] ELSE 0]
    IN  ByValue(LAMBDA key : key \o SubSeq(key, 1, nBytes - 16),
                cipher(pwBytes, keyExpansion(pwBytes)))

\* the counter block of encrypt: now.ms = timestamp % 1000,
\* now.sec = floor(timestamp / 1000), now.rnd = floor(Math.random() * 0xffff)
NonceBlock(now) ==
    << now.ms % 256, (now.ms \div 256) % 256, now.rnd % 256, (now.rnd \div 256) % 256,
       now.sec % 256, (now.sec \div 256) % 256, (now.sec \div 65536) % 256,
       (now.sec \div 16777216) % 256, 0, 0, 0, 0, 0, 0, 0, 0 >>

\* the carry loop over i = 15..8; element i of the array is cb[i + 1]
RECURSIVE PropagateCarry(_, _)
PropagateCarry(cb, n) ==
    IF n < 8 THEN cb
    ELSE PropagateCarry([cb EXCEPT ![n] = @ + (cb[n + 1] \div 256),
                                   ![n + 1] = cb[n + 1] % 256], n - 1)

\* counterBlock[blockSize-1]++ and the carry loop
IncrementCounter(cb) == PropagateCarry([cb EXCEPT ![16] = @ + 1], 15)

\* nistEncryption: the loop over b from b on; s holds ciphertext and
\* counterBlock
RECURSIVE EncryptBlocks(_, _, _, _)
EncryptBlocks(plaintext, keySchedule, s, b) ==
    IF ~(b < (Len(plaintext) + 15) \div 16) THEN s
    ELSE LET cipherCntr == cipher(s.counterBlock, keySchedule)
             blockCount == (Len(plaintext) + 15) \div 16
             blockLength == IF b < blockCount - 1 THEN 16 ELSE ((Len(plaintext) - 1) % 16) + 1
         IN  ByValue(LAMBDA t : EncryptBlocks(plaintext, keySchedule, t, b + 1),
                     [out |-> s.out \o [j \in 1..blockLength |->
                                           ByteXor(cipherCntr[j], plaintext[16 * b + j])],
                      counterBlock |-> IncrementCounter(s.counterBlock)])

\* AesCtr.nistEncryption(plaintext, key, counterBlock): the ciphertext and
\* the counter block as the call leaves it
nistEncryption(plaintext, key, counterBlock) ==
    ByValue(LAMBDA w : EncryptBlocks(plaintext, w, [out |-> << >>, counterBlock |-> counterBlock], 0),
            keyExpansion(key))

\* mutant of DecryptBlocks: the counter block is not incremented
DecryptBlocksOneCounter(ciphertext, keySchedule, s, b) ==
    [out |-> [j \in 1..Len(ciphertext) |->
                 ByteXor(cipher(s.counterBlock, keySchedule)[((j - 1) % 16) + 1], ciphertext[j])],
     counterBlock |-> s.counterBlock]

\* nistDecryption: the loop over b from b on; s holds plaintext and
\* counterBlock
RECURSIVE DecryptBlocks(_, _, _, _)
DecryptBlocks(ciphertext, keySchedule, s, b) ==
    IF ~(b < (Len(ciphertext) + 15) \div 16) THEN s
    ELSE LET cipherCntr == cipher(s.counterBlock, keySchedule)
             blockCount == (Len(ciphertext) + 15) \div 16
             blockLength == IF b < blockCount - 1 THEN 16 ELSE ((Len(ciphertext) - 1) % 16) + 1
         IN  ByValue(LAMBDA t : DecryptBlocks(ciphertext, keySchedule, t, b + 1),
                     [out |-> s.out \o [j \in 1..blockLength |->
                                           ByteXor(cipherCntr[j], ciphertext[16 * b + j])],
                      counterBlock |-> IncrementCounter(s.counterBlock)])

\* AesCtr.nistDecryption(ciphertext, key, counterBlock)
nistDecryption(ciphertext, key, counterBlock) ==
    ByValue(LAMBDA w : DecryptBlocks(ciphertext, w, [out |-> << >>, counterBlock |-> counterBlock], 0),
            keyExpansion(key))

\* AesCtr.encrypt(plaintext, password, nBits) with the nonce of the moment
encrypt(plaintext, password, nBits, now) ==
    LET key == AesCtrKey(TextEncode(password), nBits)
        counterBlock == NonceBlock(now)
    IN  btoa(SubSeq(counterBlock, 1, 8)
                 \o nistEncryption(TextEncode(plaintext), key, counterBlock).out)

\* AesCtr.decrypt(ciphertext, password, nBits) for a ciphertext of 8 bytes or
\* more: the text, or threw where utf8Decode throws URIError
decrypt(ciphertext, password, nBits) ==
    LET str == atob(ciphertext)
        key == AesCtrKey(TextEncode(password), nBits)
        counterBlock == [j \in 1..16 |-> IF j <= 8 THEN str[j] ELSE 0]
        plaintextBytes == nistDecryption(SubSeq(str, 9, Len(str)), key, counterBlock).out
        d == decodeURIComponentEscape(plaintextBytes)
    IN  [threw |-> ~d.ok, text |-> d.s]

\* AesCtr.encrypt(plaintext, password, nBits)
AesCtrEncrypt(plaintext, password, nBits, now) ==
    /\ aes.pc = "idle"
    /\ IF nBits \notin {128, 192, 256}
       THEN aes' = [aes EXCEPT !.pc = "threw", !.plaintext = plaintext,
                               !.password = password, !.nBits = nBits]
       ELSE aes' = [aes EXCEPT !.pc = "encrypted", !.plaintext = plaintext,
                               !.password = password, !.nBits = nBits, !.now = now,
                               !.ciphertext = encrypt(plaintext, password, nBits, now)]
    /\ UNCHANGED notAes

\* AesCtr.decrypt on the text AesCtr.encrypt returned, with the same
\* password and nBits
AesCtrDecrypt ==
    /\ aes.pc = "encrypted"
    /\ aes' = [aes EXCEPT !.pc = "decrypted",
                          !.decrypted = decrypt(aes.ciphertext, aes.password, aes.nBits)]
    /\ UNCHANGED notAes

\* AesCtr.nistEncryption(P, key, T): the array T holds the counter block the
\* call has left
NistEncryption(P, key, T) ==
    /\ aes.pc = "idle"
    /\ LET res == nistEncryption(P, key, T)
       IN  aes' = [aes EXCEPT !.pc = "nistEncrypted", !.P = P, !.key = key, !.T0 = T,
                              !.T = res.counterBlock, !.C = res.out]
    /\ UNCHANGED notAes

\* AesCtr.nistDecryption(C, key, T') with a new array T' equal to what T was
NistDecryption ==
    /\ aes.pc = "nistEncrypted"
    /\ aes' = [aes EXCEPT !.pc = "nistDecrypted",
                          !.D = nistDecryption(aes.C, aes.key, aes.T0).out]
    /\ UNCHANGED notAes

\* bytes written as hex digits
toBytes(hex) ==
    [j \in 1..(Len(hex) \div 2) |->
        16 * HexVal(SubSeq(hex, 2 * j - 1, 2 * j - 1)) + HexVal(SubSeq(hex, 2 * j, 2 * j))]

\* the texts: none, 1, 10, 16, 17 and 33 characters, characters of two and
\* three bytes, a surrogate pair, a surrogate without partner; the passwords:
\* none, one with multi-byte characters, one of more than 32 bytes; keys,
\* counter block and plaintext of NIST SP 800-38A F.5, parts of the
\* plaintext and a counter block of zeros; counter blocks whose counter is
\* 2^64 - 1, the second with a nonce that ends with 0xff (one block only: the
\* counter block it leaves is not one of bytes)
NextAes ==
    \/ \E plaintext \in {Js(""), Js("0"), Js("0123456789"), Js("0123456789abcdef"),
                          Js("0123456789abcdefg"), Js("My big secret 0123456789 abcdefgh"),
                          << 9786, 233, 97 >>, << 55357, 56832 >>, << 97, 55296 >>},
          password \in {Js(""), << 112, 257, 353 >>,
                         Js("a password of more than 32 bytes in all")},
          nBits \in {64, 128, 192, 256},
          now \in {[ms |-> 0, rnd |-> 0, sec |-> 0],
                    [ms |-> 999, rnd |-> 65534, sec |-> 1793952000]} :
           AesCtrEncrypt(plaintext, password, nBits, now)
    \/ \E len \in {0, 1, 16, 17, 48, 64},
          key \in {toBytes("2b7e151628aed2a6abf7158809cf4f3c"),
                    toBytes("8e73b0f7da0e6452c810f32b809079e562f8ead2522c6b7b"),
                    toBytes("603deb1015ca71be2b73aef0857d7781"
                                \o "1f352c073b6108d72d9810a30914dff4")},
          T \in {toBytes("f0f1f2f3f4f5f6f7f8f9fafbfcfdfeff"),
                  toBytes("00000000000000000000000000000000")} :
           NistEncryption(SubSeq(toBytes("6bc1bee22e409f96e93d7e117393172a"
                                             \o "ae2d8a571e03ac9c9eb76fac45af8e51"
                                             \o "30c81c46a35ce411e5fbc1191a0a52ef"
                                             \o "f69f2445df4f9b17ad2b417be66c3710"), 1, len),
                          key, T)
    \/ \E P \in {toBytes("6b"), toBytes("6bc1bee22e409f96e93d7e117393172a"),
                  toBytes("6bc1bee22e409f96e93d7e117393172aae")},
          T \in {toBytes("0000000000000000ffffffffffffffff"),
                  toBytes("01020304050607ffffffffffffffffff")} :
           /\ (T[8] = 255 => Len(P) <= 16)
           /\ NistEncryption(P, toBytes("2b7e151628aed2a6abf7158809cf4f3c"), T)
    \/ AesCtrDecrypt
    \/ NistDecryption

SpecAes == Init /\ [][NextAes]_vars

(***************************************************************************)
(* Sha512.Long.add.  The sums of the halves are numbers up to 2^33 - 2;    *)
(* they are kept as a low part of 16 bits and the part above it.           *)
(***************************************************************************)

\* Sha512.Long: constructor(hi, lo), each half coerced with >>> 0
Long512(hi, lo) == [hi |-> Shru(hi, 0), lo |-> Shru(lo, 0)]

\* the number this + that of two halves, as << part above 16 bits, low 16 bits >>
Plus(this, that, carry) ==
    LET low == Field(this.b, 0, 16) + Field(that.b, 0, 16) + carry
    IN  << Field(this.b, 16, 16) + Field(that.b, 16, 16) + (low \div 65536), low % 65536 >>

\* n >>> 0 of a number given in two parts
ToUint32(n) == Uint32(Bits16(n[2], 0) \cup Bits16(n[1] % 65536, 16))

\* add with the carry taken when lo is 2^32 or more (lo >= 0x100000000)
addWithCarry(this, that) ==
    LET lo == Plus(this.lo, that.lo, 0)
        hi == Plus(this.hi, that.hi, IF lo[1] >= 65536 THEN 1 ELSE 0)
    IN  Long512(ToUint32(hi), ToUint32(lo))

\* Sha512.Long.add(that): the carry is taken when lo > 0x100000000
add(this, that) ==
    LET lo == Plus(this.lo, that.lo, 0)
        hi == Plus(this.hi, that.hi,
                   IF lo[1] > 65536 \/ (lo[1] = 65536 /\ lo[2] > 0) THEN 1 ELSE 0)
    IN  Long512(ToUint32(hi), ToUint32(lo))

\* the call this.add(that)
LongAdd(this, that) ==
    /\ sha512' = [pc |-> "added", this |-> this, that |-> that, sum |-> add(this, that)]
    /\ UNCHANGED notSha512

\* the halves added: 0, 1, 2^31, 2^32 - 1
NextAdd ==
    \E h1 \in {{}, {0}, {31}, 0..31}, l1 \in {{}, {0}, {31}, 0..31},
       h2 \in {{}, {0}, {31}, 0..31}, l2 \in {{}, {0}, {31}, 0..31} :
        LongAdd(Long512(Uint32(h1), Uint32(l1)), Long512(Uint32(h2), Uint32(l2)))

SpecAdd == Init /\ [][NextAdd]_vars

(***************************************************************************)
(* Properties.                                                             *)
(***************************************************************************)

\* the outcome of the current call, once it has ended
Ended == pc \in {"returned", "threw"}
Outcome == [threw |-> pc = "threw", md |-> md]

\* the message as encoded, before padding
Encoded == Encode(M, opt.msgFormat).str

\* the message has been padded
Padded == pc \notin {"idle", "pad", "threw"}

\* s without its spaces
RECURSIVE RemoveSpaces(_)
RemoveSpaces(s) ==
    IF Len(s) = 0 THEN ""
    ELSE IF Len(s) = 1 THEN (IF s = " " THEN "" ELSE s)
    ELSE LET h == Len(s) \div 2
         IN  RemoveSpaces(SubSeq(s, 1, h)) \o RemoveSpaces(SubSeq(s, h + 1, Len(s)))

\* the groups of s between spaces, as pairs <<position of the first character, length>>
Cuts(s) == {0, Len(s) + 1} \cup {k \in 1..Len(s) : SubSeq(s, k, k) = " "}
NextCut(s, p) == CHOOSE q \in Cuts(s) : q > p /\ \A q2 \in Cuts(s) : q2 > p => q <= q2
Groups(s) == {<< p + 1, NextCut(s, p) - p - 1 >> : p \in Cuts(s) \ {Len(s) + 1}}

\* C1: with the default outFormat a returned digest has 56/64/96/128
\* characters for hash224/256/384/512, each a lowercase hex digit
C1_DigestLength ==
    (pc = "returned" /\ opt.outFormat = "hex") =>
        /\ Len(md) = (CASE r = 1152 -> 56 [] r = 1088 -> 64 [] r = 832 -> 96 [] r = 576 -> 128)
        /\ \A k \in 1..Len(md) : Occurs(HexDigits, SubSeq(md, k, k))

C1_Witness ==
    pc = "returned" /\ opt.outFormat = "hex" /\ r = 576 /\ Len(md) = 128
        /\ M = Js("-1") /\ opt.msgFormat = "hex-bytes"

\* C2: a call starts from the all-zero state and what it returns (or that it
\* throws) is a function of its own arguments only, whatever calls ran before
C2_Deterministic ==
    /\ pc = "pad" => \A x \in 0..4, y \in 0..4 : state[x][y] = Long(Zero32, Zero32)
    /\ Ended => Outcome = keccak1600(r, c, M, opt)

C2_Witness ==
    pc = "returned" /\ r = 832 /\ M = Repeat(97, 104) /\ i = 208
        /\ state # ZeroState /\ md = keccak1600(832, 768, Repeat(97, 104), NoOptions).md

\* C3: padding appends between 1 and r/8 bytes, the padded length is a
\* multiple of r/8 greater than the message length, and a message whose
\* length is a multiple of r/8 gets a whole block of padding
C3_PaddedLength ==
    Padded =>
        LET n == Len(Encoded)
            b == r \div 8
        IN  /\ Len(msg) % b = 0
            /\ Len(msg) > n
            /\ Len(msg) - n \in 1..b
            /\ (n % b = 0 => Len(msg) - n = b)

C3_Witness ==
    pc = "absorb" /\ r = 576 /\ Len(M) = 144 /\ Len(msg) = 216

\* C4: with q = r/8 - (len mod r/8), the padding is one byte 0x86 (0x81 for
\* 'keccak') when q = 1, and otherwise 0x06 (0x01), q - 2 bytes 0x00 and 0x80;
\* the message bytes before it are unchanged
C4_PaddingBytes ==
    (Padded /\ opt.padding \in {"sha-3", "keccak"}) =>
        LET n == Len(Encoded)
            q == (r \div 8) - (n % (r \div 8))
            keccak == opt.padding = "keccak"
        IN  /\ Len(msg) = n + q
            /\ \A k \in 1..n : msg[k] = Encoded[k]
            /\ IF q = 1
               THEN msg[n + 1] = (IF keccak THEN 129 ELSE 134)
               ELSE /\ msg[n + 1] = (IF keccak THEN 1 ELSE 6)
                    /\ \A k \in (n + 2)..(n + q - 1) : msg[k] = 0
                    /\ msg[n + q] = 128

C4_Witness ==
    pc = "absorb" /\ r = 1088 /\ Len(M) = 135 /\ opt.padding = "keccak"
        /\ Len(msg) = 136 /\ msg[136] = 129

Malformed(str) ==
    LET digits == {k \in 1..Len(str) : str[k] # 32}
    IN  Cardinality(digits) % 2 = 1 \/ \E k \in digits : ~IsHexDigit(str[k])

\* C6: a malformed hex-bytes message is rejected with an error, no digest is
\* returned for it
C6_MalformedRejected ==
    (Ended /\ opt.msgFormat = "hex-bytes" /\ Malformed(M)) => pc = "threw"

\* C7: outFormat is presentation only: the 'hex-b' and 'hex-w' outputs without
\* their spaces are the 'hex' output; 'hex-b' groups have 2 digits, 'hex-w'
\* groups 16, but for the last group of the 224-bit digest, which has 8
C7_PresentationOnly ==
    (pc = "returned" /\ opt.outFormat \in {"hex-b", "hex-w"}) =>
        /\ RemoveSpaces(md) = keccak1600(r, c, M, [opt EXCEPT !["outFormat"] = "hex"]).md
        /\ \A g \in Groups(md) :
               g[2] = (IF opt.outFormat = "hex-b" THEN 2
                       ELSE IF c = 448 /\ g[1] + g[2] = Len(md) + 1 THEN 8
                       ELSE 16)

C7_Witness ==
    pc = "returned" /\ opt.outFormat = "hex-w" /\ c = 448 /\ M = Js("abc")
        /\ Cardinality(Groups(md)) = 4 /\ << 52, 8 >> \in Groups(md)

\* the digests the tests assert for '' and 'abc' (sha3-tests.js)
Published(bitrate, message) ==
    IF message = Js("") THEN
        CASE bitrate = 1152 ->
                 "6b 4e 03 42 36 67 db b7 3b 6e 15 45 4f 0e b1 ab d4 59 7f 9a 1b 07 8e 3f 5b 5a 6b c7"
          [] bitrate = 1088 ->
                 "a7 ff c6 f8 bf 1e d7 66 51 c1 47 56 a0 61 d6 62 f5 80 ff 4d e4 3b 49 fa 82 d8 0a 4b 80 f8 43 4a"
          [] bitrate = 832 ->
                 "0c 63 a7 5b 84 5e 4f 7d 01 10 7d 85 2e 4c 24 85 c5 1a 50 aa aa 94 fc 61 99 5e 71 bb ee 98 3a 2a c3 71 38 31 26 4a db 47 fb 6b d1 e0 58 d5 f0 04"
          [] bitrate = 576 ->
                 "a6 9f 73 cc a2 3a 9a c5 c8 b5 67 dc 18 5a 75 6e 97 c9 82 16 4f e2 58 59 e0 d1 dc c1 47 5c 80 a6 15 b2 12 3a f1 f5 f9 4c 11 e3 e9 40 2c 3a c5 58 f5 00 19 9d 95 b6 d3 e3 01 75 85 86 28 1d cd 26"
    ELSE
        CASE bitrate = 1152 ->
                 "e642824c3f8cf24a d09234ee7d3c766f c9a3a5168d0c94ad 73b46fdf"
          [] bitrate = 1088 ->
                 "3a985da74fe225b2 045c172d6bd390bd 855f086e3e9d525b 46bfe24511431532"
          [] bitrate = 832 ->
                 "ec01498288516fc9 26459f58e2c6ad8d f9b473cb0fc08c25 96da7cf0e49be4b2 98d88cea927ac7f5 39f1edf228376d25"
          [] bitrate = 576 ->
                 "b751850b1a57168a 5693cd924b6b096e 08f621827444f70d 884f5d0240d2712e 10e116e9192af3c9 1a7ec57647e39340 57340b4cf408d5a5 6592f8274eec53f0"

\* C8: for '' and 'abc', with 'sha-3' padding, each of the four functions
\* returns the published digest (spaces left aside)
C8_KnownAnswers ==
    (pc = "returned" /\ opt.padding = "sha-3" /\ opt.msgFormat = "string"
        /\ M \in {Js(""), Js("abc")}) =>
        /\ RemoveSpaces(md) = RemoveSpaces(Published(r, M))
        /\ (r = 1088 /\ M = Js("") =>
               RemoveSpaces(md) = "a7ffc6f8bf1ed76651c14756a061d662f580ff4de43b49fa82d80a4b80f8434a")
        /\ (r = 576 /\ M = Js("abc") =>
               RemoveSpaces(md) = "b751850b1a57168a5693cd924b6b096e08f621827444f70d884f5d0240d2712e10e116e9192af3c91a7ec57647e3934057340b4cf408d5a56592f8274eec53f0")

C8_Witness ==
    pc = "returned" /\ opt = [defaults EXCEPT !["outFormat"] = "hex-w"]
        /\ r = 576 /\ M = Js("abc") /\ md = Published(576, Js("abc"))

\* C9 as the specification words it: hash256 of the empty message with
\* default options is the 63-character string of the specification
C9_SpecAnswer ==
    (pc = "returned" /\ r = 1088 /\ M = Js("") /\ opt = defaults) =>
        md = "a7ffc6f8bf1ed76651c14756a061d662f580ff4de43b49fa82d80a4b80f8434"

\* C9, amended: hash256 of the empty message with default options is the
\* 64-character digest a7ffc6f8...f8434a, the string of the specification
\* followed by its last digit a
C9_Hash256Empty ==
    (pc = "returned" /\ r = 1088 /\ M = Js("") /\ opt = defaults) =>
        /\ md = "a7ffc6f8bf1ed76651c14756a061d662f580ff4de43b49fa82d80a4b80f8434a"
        /\ md = "a7ffc6f8bf1ed76651c14756a061d662f580ff4de43b49fa82d80a4b80f8434" \o "a"

C9_Witness ==
    pc = "returned" /\ r = 1088 /\ M = Js("") /\ opt = defaults /\ Len(md) = 64

\* the bytes written as pairs of hex digits
HexString(bytes) ==
    [k \in 1..(2 * Len(bytes)) |->
        CharCode(HexChar(IF k % 2 = 1 THEN bytes[(k + 1) \div 2] \div 16
                         ELSE bytes[k \div 2] % 16))]

\* C10: in 'string' mode the digest is that of the UTF-8 bytes of the message,
\* one character in 0..255 per byte: it equals the digest of their hex
\* rendering in 'hex-bytes' mode; the empty hex string hashes as the empty
\* message
C10_StringIsUtf8Bytes ==
    /\ (pc = "returned" /\ opt.msgFormat = "string") =>
           /\ \A k \in 1..Len(msg) : msg[k] \in 0..255
           /\ md = keccak1600(r, c, HexString(utf8Encode(M)),
                              [opt EXCEPT !["msgFormat"] = "hex-bytes"]).md
    /\ (pc = "returned" /\ opt.msgFormat = "hex-bytes" /\ M = Js("")) =>
           md = keccak1600(r, c, Js(""), [opt EXCEPT !["msgFormat"] = "string"]).md

C10_Witness ==
    pc = "returned" /\ opt.msgFormat = "string" /\ M = smiley /\ r = 576
        /\ HexString(utf8Encode(M)) = Js("e298ba")
        /\ md = "323dea2a28f42085c70e7bcf59fb1be710ba4e85b9d5f53a94928eed73d2e17940a17682820b7b938f2beaedb51590cfe0883d55f5cceeb7b18ff2d02c33bac0"

\* what each of the calls made side by side returns when it runs alone
AloneSet ==
    {<< << in[1], in[2], in[3], Assign(defaults, in[4]) >>,
        keccak1600(in[1], in[2], in[3], in[4]) >> : in \in TaskInputs}
Alone(in) == (CHOOSE pr \in AloneSet : pr[1] = in)[2]

\* C11: invocations whose steps interleave in any order do not interfere:
\* no two of them hold the same state array, and each ends as the same call
\* ends when it runs alone (the same digest, or the same error)
C11_NoInterference ==
    /\ \A p \in Procs, q \in Procs :
           (p # q /\ inv[p].a # 0 /\ inv[q].a # 0) => inv[p].a # inv[q].a
    /\ \A p \in Procs :
           inv[p].pc \in {"returned", "threw"} =>
               [threw |-> inv[p].pc = "threw", md |-> inv[p].md]
                   = Alone(<< inv[p].r, inv[p].c, inv[p].M, inv[p].opt >>)

\* invocation 1, called after invocation 2, has returned its digest while
\* invocation 2 is between the absorbing of its block and the permutation
C11_Witness ==
    /\ inv[1].pc = "returned" /\ inv[2].pc = "permute"
    /\ inv[1].M = Js("abc") /\ inv[1].r = 1088
    /\ inv[2].M = Repeat(97, 72) /\ inv[2].r = 576 /\ inv[2].i = 0
    /\ inv[1].a = 2 /\ inv[2].a = 1
    /\ heap[1] # ZeroState
    /\ inv[1].md = "3a985da74fe225b2045c172d6bd390bd855f086e3e9d525b46bfe24511431532"

\* the 64-bit value of a Long as the set of its bits that are 1
Value64(l) == {k \in Bits32 : k \in l.lo.b} \cup {k + 32 : k \in {j \in Bits32 : j \in l.hi.b}}

\* the 64-bit left rotation by d of a value given by its bits
Rot64(S, d) == {(k + d) % 64 : k \in S}

\* C12: rotation identity: for every lane v and every d in 0..63, rotating
\* v left by d and the result by 64 - d gives v back as a 64-bit value
C12_RotationIdentity ==
    \A d \in 0..63 : shifts = << d, 64 - d >> => Value64(long) = Value64(long0)

\* C15: for every lane v and every d in 0..64, rotl(v, d) is the 64-bit
\* left rotation of v by d, bits crossing the half boundary; for d = 0 and
\* d = 64 it is v itself
C15_RotlIsRotation ==
    Len(shifts) = 1 =>
        /\ Value64(long) = Rot64(Value64(long0), shifts[1])
        /\ (shifts[1] \in {0, 64} => Value64(long) = Value64(long0))

\* lane (x, y) of a state array as a 64-bit value; XOR of two 64-bit values
Lane(a, x, y) == Value64(a[x][y])
Xor64(S, T) == (S \ T) \cup (T \ S)
Coord == 0..4

\* C16: the permutation is exactly 24 rounds, numbered 0..23 from the start
\* of each permutation; within a round the step mappings run in the order
\* theta, rho + pi, chi, iota; the iota of round i XORs RC[i] into lane
\* (0,0); after the iota of round 23 the permutation is over
C16_RoundStructure ==
    /\ [](pc \in {"theta", "rhopi", "chi", "iota"} => round \in 0..23)
    /\ [][/\ (pc # "theta" /\ pc' = "theta") =>
                 ((pc = "absorb" /\ round' = 0)
                     \/ (pc = "iota" /\ round' = round + 1 /\ round' < 24))
          /\ (pc = "theta") => (pc' = "rhopi" /\ round' = round)
          /\ (pc = "rhopi") => (pc' = "chi" /\ round' = round)
          /\ (pc = "chi") => (pc' = "iota" /\ round' = round)
          /\ (pc = "iota") =>
                 (/\ Lane(state', 0, 0)
                         = Xor64(Lane(state, 0, 0), Value64(RCseq[round + 1]))
                  /\ pc' = (IF round = 23 THEN "absorb" ELSE "theta"))
          /\ (pc \in {"theta", "rhopi", "chi", "iota"} /\ pc' = "absorb") =>
                 (pc = "iota" /\ round = 23 /\ round' = 24)]_vars

C16_Witness ==
    /\ pc = "absorb" /\ round = 24 /\ i = blocksize(r)
    /\ state # ZeroState

\* the column parity C[x] of a state array
Parity64(a, x) ==
    Xor64(Xor64(Xor64(Xor64(Lane(a, x, 0), Lane(a, x, 1)), Lane(a, x, 2)), Lane(a, x, 3)),
          Lane(a, x, 4))

\* C17: theta: every lane (x, y) becomes itself XOR D[x], where
\* D[x] = C[x+4 mod 5] XOR rotl(C[x+1 mod 5], 1) and every C[x] is the XOR of
\* the five lanes of column x of the state before theta
C17_Theta ==
    [][pc = "theta" =>
          \A x \in Coord, y \in Coord :
              Lane(state', x, y) =
                  Xor64(Lane(state, x, y),
                        Xor64(Parity64(state, (x + 4) % 5),
                              Rot64(Parity64(state, (x + 1) % 5), 1)))]_vars

C17_Witness ==
    /\ pc = "rhopi" /\ round = 1
    /\ \E x \in Coord : Lane(state, x, 0) # Parity64(state, x)

\* the position (x, y) the loop of rho + pi holds before iteration t
RECURSIVE Trajectory(_)
Trajectory(t) ==
    IF t = 0 THEN << 1, 0 >>
    ELSE LET p == Trajectory(t - 1) IN << p[2], (2 * p[1] + 3 * p[2]) % 5 >>

\* C18: rho + pi: the trajectory from (1,0) visits each of the 24 lanes other
\* than (0,0) exactly once and is back at (1,0) after 24 iterations; the lane
\* reached in iteration t holds the lane the iteration started from, as it
\* was before the step, rotated left by ((t+1)(t+2)/2) mod 64; lane (0,0) is
\* unchanged
C18_RhoPi ==
    [][pc = "rhopi" =>
          /\ {Trajectory(t) : t \in 1..24} = (Coord \X Coord) \ {<< 0, 0 >>}
          /\ Trajectory(24) = << 1, 0 >>
          /\ \A t \in 0..23 :
                 Lane(state', Trajectory(t + 1)[1], Trajectory(t + 1)[2]) =
                     Rot64(Lane(state, Trajectory(t)[1], Trajectory(t)[2]),
                           (((t + 1) * (t + 2)) \div 2) % 64)
          /\ Lane(state', 0, 0) = Lane(state, 0, 0)]_vars

C18_Witness ==
    /\ pc = "chi" /\ round = 23
    /\ Lane(state, 0, 2) # {}

\* C19: chi: every lane (x, y) becomes a[x][y] XOR (NOT a[x+1][y] AND
\* a[x+2][y]), x + 1 and x + 2 modulo 5, all three lanes as they were before
\* the step
C19_Chi ==
    [][pc = "chi" =>
          \A x \in Coord, y \in Coord :
              Lane(state', x, y) =
                  Xor64(Lane(state, x, y),
                        ((0..63) \ Lane(state, (x + 1) % 5, y))
                            \cap Lane(state, (x + 2) % 5, y))]_vars

C19_Witness ==
    /\ pc = "iota" /\ round = 2
    /\ \E x \in Coord, y \in Coord : Lane(state, x, y) \notin {{}, 0..63}

\* C20: iota of round i changes lane (0,0) only, to its XOR with RC[i]
C20_Iota ==
    [][pc = "iota" =>
          /\ Lane(state', 0, 0) = Xor64(Lane(state, 0, 0), Value64(RC(round)))
          /\ \A x \in Coord, y \in Coord :
                 << x, y >> # << 0, 0 >> => state'[x][y] = state[x][y]]_vars

C20_Witness ==
    /\ pc = "theta" /\ round = 3
    /\ Lane(state, 0, 0) # {}

\* C14: Block TEA round trip: whenever Tea.decrypt has returned, on the text
\* Tea.encrypt returned and with the same password, what it returned is the
\* plaintext
C14_TeaRoundTrip ==
    tea.pc = "decrypted" => tea.decrypted = tea.plaintext

\* a string in which every surrogate is half of a pair
WellFormed(str) ==
    \A j \in 1..Len(str) :
        /\ str[j] \in 55296..56319 => (j < Len(str) /\ str[j + 1] \in 56320..57343)
        /\ str[j] \in 56320..57343 => (j > 1 /\ str[j - 1] \in 55296..56319)

\* C13 as stated: AES-CTR round trip: whenever AesCtr.decrypt has returned, on
\* the text AesCtr.encrypt returned and with the same password and nBits, it
\* has returned the plaintext, whatever the nonce; and nistDecryption on the
\* output of nistEncryption, with the same key and an equal initial counter
\* block, returns the input, both outputs as long as their inputs
C13_RoundTrip ==
    /\ aes.pc = "decrypted" => aes.decrypted = [threw |-> FALSE, text |-> aes.plaintext]
    /\ aes.pc = "nistDecrypted" =>
           (aes.D = aes.P /\ Len(aes.C) = Len(aes.P) /\ Len(aes.D) = Len(aes.C))

\* C13 amended: the round trip of AesCtr.encrypt and AesCtr.decrypt holds for
\* every plaintext in which no surrogate is without its partner; the round
\* trip of nistEncryption and nistDecryption holds as stated
C13_WellFormedRoundTrip ==
    /\ (aes.pc = "decrypted" /\ WellFormed(aes.plaintext)) =>
           aes.decrypted = [threw |-> FALSE, text |-> aes.plaintext]
    /\ aes.pc = "nistDecrypted" =>
           (aes.D = aes.P /\ Len(aes.C) = Len(aes.P) /\ Len(aes.D) = Len(aes.C))

C13_Witness ==
    /\ aes.pc = "decrypted"
    /\ aes.plaintext = Js("My big secret 0123456789 abcdefgh")
    /\ aes.password = << 112, 257, 353 >>
    /\ aes.nBits = 256
    /\ aes.now.sec = 1793952000
    /\ Len(atob(aes.ciphertext)) = 8 + 33
    /\ aes.decrypted.text = aes.plaintext

\* the eight bytes of str from offset off on (counted from 0) as a 64-bit
\* value, the first byte the least significant
LittleEndian64(str, off) ==
    {n \in 0..63 : (str[off + (n \div 8) + 1] \div (2 ^ (n % 8))) % 2 = 1}

\* C21: absorbing one block: for each j in [0, r/64) the 8 bytes at block
\* offset 8j, read as a little-endian 64-bit lane, are XORed into lane
\* (j mod 5, j div 5); the lanes of index 5y + x >= r/64 are left as they are
C21_AbsorbBlock ==
    [][(pc = "absorb" /\ pc' = "theta") =>
          \A x \in Coord, y \in Coord :
              IF 5 * y + x < r \div 64
              THEN Lane(state', x, y) =
                       Xor64(Lane(state, x, y), LittleEndian64(msg, i + 8 * (5 * y + x)))
              ELSE state'[x][y] = state[x][y]]_vars

\* the block at offset i of the padded message is made of byte values
ByteBlock == \A k \in 1..blocksize(r) : msg[i + k] \in 0..255

\* the same for the blocks whose characters are all byte values
C21_AbsorbByteBlock ==
    [][(pc = "absorb" /\ pc' = "theta" /\ ByteBlock) =>
          \A x \in Coord, y \in Coord :
              IF 5 * y + x < r \div 64
              THEN Lane(state', x, y) =
                       Xor64(Lane(state, x, y), LittleEndian64(msg, i + 8 * (5 * y + x)))
              ELSE state'[x][y] = state[x][y]]_vars

\* C22: a call on a message of n bytes (as encoded) ends, after applying the
\* permutation floor(n / (r/8)) + 1 times: i counts the bytes absorbed, it
\* starts at 0 and rises by one block exactly when a permutation ends; a
\* permutation starts only from the XOR of the block at offset i, a block not
\* absorbed before and within the padded message, and none starts once the
\* last block has been permuted; the empty message gets one permutation
C22_Permutations ==
    /\ [](pc = "returned" =>
              /\ i = (Len(Encoded) \div (r \div 8) + 1) * blocksize(r)
              /\ i >= blocksize(r))
    /\ [][/\ (pc' = "theta" /\ round' = 0) =>
                 (/\ pc = "absorb"
                  /\ i' = i /\ i % blocksize(r) = 0 /\ i + blocksize(r) <= Len(msg)
                  /\ state' = AbsorbLanes(state, msg, i, r, 0))
          /\ (i' # i) =>
                 ((pc = "iota" /\ round = 23 /\ pc' = "absorb" /\ i' = i + blocksize(r))
                     \/ (pc \in {"idle", "returned", "threw"} /\ i' = 0))
          /\ (pc = "absorb" /\ ~(i < Len(msg))) => pc' = "returned"
          /\ (pc = "returned") => pc' \in {"pad", "threw"}]_vars
    /\ (pc = "pad") ~> (pc = "returned")

\* a message of exactly one block has returned after two permutations
C22_Witness ==
    /\ pc = "returned" /\ r = 576 /\ M = Repeat(97, 72)
    /\ Len(msg) = 144 /\ i = 144 /\ round = 24

\* byte k (from 0) of the state serialized lane by lane, lane (x, y) at index
\* 5y + x, the least significant byte of a lane first
StateByte(a, k) ==
    LET v == Lane(a, (k \div 8) % 5, (k \div 8) \div 5)
        bit(n) == IF 8 * (k % 8) + n \in v THEN 2 ^ n ELSE 0
    IN  bit(0) + bit(1) + bit(2) + bit(3) + bit(4) + bit(5) + bit(6) + bit(7)

\* the first n bytes of the serialized state as hex digits
StateHex(a, n) ==
    Join([k \in 1..n |-> HexChar(StateByte(a, k - 1) \div 16)
                             \o HexChar(StateByte(a, k - 1) % 16)], "")

\* C23: squeeze: (r, c) is one of the four pairs and l = c/2 <= r; the digest
\* returned is the first l/8 bytes of the state as the last permutation of
\* the absorbing phase left it, lane by lane in the order 5y + x, each lane
\* little-endian; the state is read once, with no permutation during or
\* after the read
C23_Squeeze ==
    /\ [](pc # "idle" =>
              /\ << r, c >> \in {<< 1152, 448 >>, << 1088, 512 >>, << 832, 768 >>,
                                 << 576, 1024 >>}
              /\ c \div 2 <= r)
    /\ [](pc = "returned" => RemoveSpaces(md) = StateHex(state, (c \div 2) \div 8))
    /\ [][/\ (pc # "returned" /\ pc' = "returned") =>
                 (pc = "absorb" /\ round = 24 /\ i = Len(msg) /\ state' = state)
          /\ (pc = "returned") => pc' \notin {"absorb", "theta", "rhopi", "chi", "iota"}
          /\ (pc = "returned" /\ pc' = "returned") => (state' = state /\ md' = md)]_vars

\* the 224-bit digest of 'abc': three lanes and the low half of the fourth
C23_Witness ==
    /\ pc = "returned" /\ r = 1152 /\ c = 448 /\ M = Js("abc") /\ opt = defaults
    /\ md = "e642824c3f8cf24ad09234ee7d3c766fc9a3a5168d0c94ad73b46fdf"
    /\ md = StateHex(state, 28)
    /\ Lane(state, 3, 0) # {k \in Lane(state, 3, 0) : k < 32}

\* one shift of the LFSR: the polynomial P over GF(2), given by the set of
\* the exponents whose coefficient is 1, times x modulo x^8 + x^6 + x^5 + x^4 + 1
LfsrShift(P) ==
    LET shifted == {k + 1 : k \in P \ {7}}
    IN  IF 7 \in P THEN Xor64(shifted, {0, 4, 5, 6}) ELSE shifted

\* x^t modulo x^8 + x^6 + x^5 + x^4 + 1 (seven shifts at a time, to keep the
\* evaluation shallow)
RECURSIVE XPower(_)
XPower(t) ==
    IF t = 0 THEN {0}
    ELSE IF t < 7 THEN LfsrShift(XPower(t - 1))
    ELSE ByValue(LAMBDA P : LfsrShift(LfsrShift(LfsrShift(LfsrShift(LfsrShift(
                                LfsrShift(LfsrShift(P))))))),
                 XPower(t - 7))

\* rc[t], the output of the LFSR: the constant coefficient of x^t
rc == [t \in 0..167 |-> IF 0 \in XPower(t) THEN 1 ELSE 0]

\* the round constant derived from the LFSR: bit 2^j - 1 is rc[j + 7i]
DerivedRC(rnd) == {2 ^ j - 1 : j \in {n \in 0..6 : rc[n + 7 * rnd] = 1}}

\* C24: for every round i in 0..23 the constant of the table equals the one
\* derived from the LFSR (bit 2^j - 1 is rc[j + 7i] for j in 0..6, every
\* other bit is 0), and the iota of round i of every permutation of every
\* call XORs that value into lane (0,0): no call finds the table changed
C24_RoundConstants ==
    /\ [](\A rnd \in 0..23 : Value64(RC(rnd)) = DerivedRC(rnd))
    /\ [][pc = "iota" =>
              Lane(state', 0, 0) = Xor64(Lane(state, 0, 0), DerivedRC(round))]_vars

\* the end of the second permutation of a call that follows another call
C24_Witness ==
    /\ pc = "absorb" /\ round = 24 /\ i = 2 * blocksize(r) /\ M = Repeat(97, 72)
    /\ inv = [p \in Procs |-> NoCall]
    /\ Value64(RC(23)) = {3, 15, 31, 63}
    /\ DerivedRC(23) = {3, 15, 31, 63}
    /\ rc[7] = 0 /\ rc[8] = 1

\* a 32-bit half that is a number in [0, 2^32)
Unsigned(h) == h.b \subseteq Bits32 /\ ~h.neg

\* C25: whenever keccak_f_1600 returns, the hi and lo halves of all 25 lanes
\* are numbers in [0, 2^32), whatever the signs of the halves of the state it
\* was called with; when the state is squeezed, toString of every lane is 16
\* hex digits, without a sign
C25_UnsignedHalves ==
    /\ [][(pc = "iota" /\ pc' = "absorb") =>
              \A x \in Coord, y \in Coord :
                  Unsigned(state'[x][y].hi) /\ Unsigned(state'[x][y].lo)]_vars
    /\ []((pc = "absorb" /\ round = 24) =>
              \A x \in Coord, y \in Coord :
                  /\ Unsigned(state[x][y].hi) /\ Unsigned(state[x][y].lo)
                  /\ Len(LongToString(state[x][y])) = 16
                  /\ \A k \in 1..16 :
                         Occurs(HexDigits, SubSeq(LongToString(state[x][y]), k, k)))

\* keccak_f_1600 has returned on the block that ends with the byte 0x80,
\* which made the high half of its last lane negative; halves of the state
\* returned have bit 31 set
C25_Witness ==
    /\ pc = "absorb" /\ round = 24 /\ i = blocksize(r) /\ i = Len(msg)
    /\ Word(0, 0, 0, msg[i]).neg
    /\ \E x \in Coord, y \in Coord : 31 \in state[x][y].hi.b /\ 31 \in state[x][y].lo.b

\* C26: every rotation amount keccak_f_1600 passes to rotl is in 1..63: theta
\* rotates by 1 and the rho offsets ((t+1)(t+2)/2) mod 64, t in 0..23, are
\* never 0; rho + pi of every hash call rotates the lane of iteration t by
\* its offset as a 64-bit rotation, never by 0 or 64
C26_RotationAmounts ==
    /\ [](ThetaOffset \in 1..63 /\ \A t \in 0..23 : RhoOffset(t) \in 1..63)
    /\ [][pc = "rhopi" =>
              \A t \in 0..23 :
                  Lane(state', Trajectory(t + 1)[1], Trajectory(t + 1)[2]) =
                      Rot64(Lane(state, Trajectory(t)[1], Trajectory(t)[2]),
                            RhoOffset(t))]_vars

\* rho + pi has been applied in the last round of a second permutation
C26_Witness ==
    /\ pc = "chi" /\ round = 23 /\ i = blocksize(r)
    /\ RhoOffset(10) = 2 /\ RhoOffset(18) = 62 /\ RhoOffset(23) = 44
    /\ \A x \in Coord, y \in Coord : Lane(state, x, y) # {}

\* a string of groups of hex pairs separated by single spaces
SpacedPairs(str) ==
    /\ Len(str) > 0
    /\ \A k \in 1..Len(str) : IsHexDigit(str[k]) \/ str[k] = 32
    /\ \A g \in Groups([k \in 1..Len(str) |-> IF str[k] = 32 THEN " " ELSE "x"]) :
           g[2] > 0 /\ g[2] % 2 = 0

\* C27: in 'hex-bytes' mode a message written as groups of hex pairs
\* separated by single spaces ends as the same hex digits written without
\* spaces end: the same digest is returned
C27_SpacedGroups ==
    (Ended /\ opt.msgFormat = "hex-bytes" /\ SpacedPairs(M)) =>
        /\ pc = "returned"
        /\ Outcome = keccak1600(r, c, SelectSeq(M, LAMBDA u : u # 32), opt)

\* the 64-bit value of a Long as four 16-bit numbers, the least significant first
Limbs(l) ==
    << Field(l.lo.b, 0, 16), Field(l.lo.b, 16, 16), Field(l.hi.b, 0, 16), Field(l.hi.b, 16, 16) >>

\* a + b modulo 2^64 on such numbers
RECURSIVE Sum64(_, _, _, _)
Sum64(a, b, k, carry) ==
    IF k > 4 THEN << >>
    ELSE << (a[k] + b[k] + carry) % 65536 >>
             \o Sum64(a, b, k + 1, (a[k] + b[k] + carry) \div 65536)

\* C28: Sha512.Long.add is addition modulo 2^64: lo is the sum of the low
\* halves modulo 2^32 and hi the sum of the high halves and the carry modulo
\* 2^32, the carry being 1 exactly when the low halves add up to 2^32 or more
C28_AddMod64 ==
    sha512.pc = "added" =>
        /\ Limbs(sha512.sum) = Sum64(Limbs(sha512.this), Limbs(sha512.that), 1, 0)
        /\ Unsigned(sha512.sum.hi) /\ Unsigned(sha512.sum.lo)

\* the counter block with the big-endian counter of its bytes 8..15 (elements
\* k = 9..16 of the sequence) increased by one modulo 2^64, from element k down
RECURSIVE CounterSucc(_, _)
CounterSucc(cb, k) ==
    IF k < 9 THEN cb
    ELSE IF cb[k] = 255 THEN CounterSucc([cb EXCEPT ![k] = 0], k - 1)
    ELSE [cb EXCEPT ![k] = @ + 1]

RECURSIVE CounterPlus(_, _)
CounterPlus(cb, n) == IF n = 0 THEN cb ELSE CounterPlus(CounterSucc(cb, 16), n - 1)

\* C29: nistEncryption leaves the counter block with the 64-bit big-endian
\* counter of bytes 8..15 increased by one for each block processed, also
\* from a counter of eight bytes 0xff, with bytes 0..7 as they were and
\* every element in 0..255; nistDecryption run from an equal counter block
\* leaves the same counter block
C29_CounterIncrement ==
    aes.pc \in {"nistEncrypted", "nistDecrypted"} =>
        /\ aes.T = CounterPlus(aes.T0, (Len(aes.P) + 15) \div 16)
        /\ \A k \in 1..8 : aes.T[k] = aes.T0[k]
        /\ \A k \in 1..16 : aes.T[k] \in 0..255
        /\ aes.pc = "nistDecrypted" =>
               nistDecryption(aes.C, aes.key, aes.T0).counterBlock = aes.T

\* C30: Tea.decode terminates for every data vector, the empty one and one of
\* one element among them, and every key: while (sum != 0) is running, sum is
\* delta times a finite count of rounds, one less after every round, so that
\* sum = 0 comes after finitely many rounds; so Tea.decrypt returns for
\* every text that is not empty, one whose base64 decoding is empty among them
C30_DecodeTerminates ==
    tea.pc = "decode" => tea.sum.times \in 0..(6 + 52)

\* the loop of Tea.decode over a vector of one element, which comes to its end
C30_OneElement ==
    (tea.pc = "decode" /\ Len(tea.v) = 1) => tea.sum.times \in 0..(6 + 52)

=============================================================================
